---- MODULE Spec2Model ----
(***************************************************************************)
(* Model of Foundry's template materialization: internal/project           *)
(* (CreateFromTemplate, PreviewFromTemplate, copyTree, shouldSkipEntry),   *)
(* internal/utils (MatchIgnore, LoadIgnorePatterns, IsBinary,              *)
(* ReplacePlaceholders) and the `new` command of cmd.                      *)
(*                                                                         *)
(* A Go string is a sequence of one-character strings; the zero byte is    *)
(* the element NUL and the line feed the element LF.  Paths use "/" as     *)
(* os.PathSeparator.                                                       *)
(***************************************************************************)
EXTENDS Integers, Sequences, FiniteSets, TLC

NUL == "NUL"
LF == "LF"
SEP == "/"

(***************************************************************************)
(* package strings                                                         *)
(***************************************************************************)
HasPrefix(s, p) == Len(p) <= Len(s) /\ SubSeq(s, 1, Len(p)) = p

HasSuffix(s, p) == Len(p) <= Len(s) /\ SubSeq(s, Len(s) - Len(p) + 1, Len(s)) = p

TrimSuffix(s, p) == IF HasSuffix(s, p) THEN SubSeq(s, 1, Len(s) - Len(p)) ELSE s

\* strings.Index: the first position at which sub occurs in s, 0 when none
Index(s, sub) ==
    LET hits == {i \in 1..(Len(s) - Len(sub) + 1) : SubSeq(s, i, i + Len(sub) - 1) = sub}
    IN  IF hits = {} THEN 0 ELSE CHOOSE i \in hits : \A j \in hits : i <= j

RECURSIVE SplitOn(_, _)
\* strings.Split(s, c) for a one-character separator c
SplitOn(s, c) ==
    LET i == Index(s, <<c>>)
    IN  IF i = 0 THEN <<s>>
        ELSE <<SubSeq(s, 1, i - 1)>> \o SplitOn(SubSeq(s, i + 1, Len(s)), c)

RECURSIVE JoinWith(_, _)
\* strings.Join(segs, c)
JoinWith(segs, c) ==
    IF Len(segs) = 0 THEN <<>>
    ELSE IF Len(segs) = 1 THEN segs[1]
    ELSE segs[1] \o <<c>> \o JoinWith(Tail(segs), c)

RECURSIVE TrimLeft(_)
TrimLeft(s) == IF Len(s) > 0 /\ s[1] = " " THEN TrimLeft(Tail(s)) ELSE s

RECURSIVE TrimRight(_)
TrimRight(s) ==
    IF Len(s) > 0 /\ s[Len(s)] = " " THEN TrimRight(SubSeq(s, 1, Len(s) - 1)) ELSE s

TrimSpace(s) == TrimRight(TrimLeft(s))

\* a replacement of the first occurrence alone
ReplaceFirst(s, old, new) ==
    LET i == Index(s, old)
    IN  IF i = 0 \/ Len(old) = 0 THEN s
        ELSE SubSeq(s, 1, i - 1) \o new \o SubSeq(s, i + Len(old), Len(s))

RECURSIVE ReplaceAll(_, _, _)
\* strings.ReplaceAll: non-overlapping occurrences of old, left to right
ReplaceAll(s, old, new) ==
    LET i == Index(s, old)
    IN  IF i = 0 \/ Len(old) = 0 THEN s
        ELSE SubSeq(s, 1, i - 1) \o new
             \o ReplaceAll(SubSeq(s, i + Len(old), Len(s)), old, new)

(***************************************************************************)
(* package path/filepath                                                   *)
(***************************************************************************)
IsAbs(p) == Len(p) > 0 /\ p[1] = SEP

RECURSIVE CleanSegs(_, _, _)
\* the elements of a cleaned path: "" and "." dropped, ".." resolved
CleanSegs(segs, acc, rooted) ==
    IF Len(segs) = 0 THEN acc
    ELSE LET h == segs[1]
             t == Tail(segs)
         IN  IF h = <<>> \/ h = <<".">> THEN CleanSegs(t, acc, rooted)
             ELSE IF h = <<".", ".">>
                  THEN IF Len(acc) > 0 /\ acc[Len(acc)] # <<".", ".">>
                       THEN CleanSegs(t, SubSeq(acc, 1, Len(acc) - 1), rooted)
                       ELSE IF rooted THEN CleanSegs(t, acc, rooted)
                       ELSE CleanSegs(t, Append(acc, h), rooted)
             ELSE CleanSegs(t, Append(acc, h), rooted)

\* the elements of Clean(p)
Elems(p) == CleanSegs(SplitOn(p, SEP), <<>>, IsAbs(p))

Clean(p) ==
    LET body == JoinWith(Elems(p), SEP)
    IN  IF IsAbs(p) THEN <<SEP>> \o body
        ELSE IF body = <<>> THEN <<".">> ELSE body

\* filepath.Join of two elements: empty elements are ignored, the result cleaned
Join(a, b) ==
    IF a = <<>> THEN (IF b = <<>> THEN <<>> ELSE Clean(b))
    ELSE IF b = <<>> THEN Clean(a)
    ELSE Clean(a \o <<SEP>> \o b)

\* filepath.Base of a cleaned path
Base(p) == LET e == Elems(p) IN IF Len(e) = 0 THEN Clean(p) ELSE e[Len(e)]

\* filepath.Dir of a cleaned path
Dir(p) ==
    LET e == Elems(p)
        body == JoinWith(SubSeq(e, 1, Len(e) - 1), SEP)
    IN  IF IsAbs(p) THEN <<SEP>> \o body
        ELSE IF body = <<>> THEN <<".">> ELSE body

\* filepath.ToSlash: the separator already is "/"
ToSlash(p) == p

RECURSIVE CommonLen(_, _)
CommonLen(a, b) ==
    IF Len(a) = 0 \/ Len(b) = 0 \/ a[1] # b[1] THEN 0
    ELSE 1 + CommonLen(Tail(a), Tail(b))

\* filepath.Rel(basepath, targpath): [ok, val]; on error Go returns ("", err)
Rel(basepath, targpath) ==
    LET b == Elems(basepath)
        t == Elems(targpath)
        n == CommonLen(b, t)
        ups == [i \in 1..(Len(b) - n) |-> <<".", ".">>]
        rest == SubSeq(t, n + 1, Len(t))
    IN  IF Clean(basepath) = Clean(targpath) THEN [ok |-> TRUE, val |-> <<".">>]
        ELSE IF IsAbs(basepath) # IsAbs(targpath) THEN [ok |-> FALSE, val |-> <<>>]
        ELSE IF n < Len(b) /\ b[n + 1] = <<".", ".">> THEN [ok |-> FALSE, val |-> <<>>]
        ELSE [ok |-> TRUE, val |-> JoinWith(ups \o rest, SEP)]

RECURSIVE Match(_, _)
\* filepath.Match for patterns of literals, "*" and "?": neither wildcard
\* matches the separator
Match(pattern, name) ==
    IF Len(pattern) = 0 THEN Len(name) = 0
    ELSE IF pattern[1] = "*"
         THEN \/ Match(Tail(pattern), name)
              \/ Len(name) > 0 /\ name[1] # SEP /\ Match(pattern, Tail(name))
    ELSE IF pattern[1] = "?"
         THEN Len(name) > 0 /\ name[1] # SEP /\ Match(Tail(pattern), Tail(name))
    ELSE Len(name) > 0 /\ name[1] = pattern[1] /\ Match(Tail(pattern), Tail(name))

(***************************************************************************)
(* Byte order of the characters file names are made of (sort.Strings in    *)
(* readDirNames), and the case mapping of strings.ToLower / ToUpper.       *)
(***************************************************************************)
UpperAZ == <<"A", "B", "C", "D", "E", "F", "G", "H", "I", "J", "K", "L", "M",
             "N", "O", "P", "Q", "R", "S", "T", "U", "V", "W", "X", "Y", "Z">>

LowerAZ == <<"a", "b", "c", "d", "e", "f", "g", "h", "i", "j", "k", "l", "m",
             "n", "o", "p", "q", "r", "s", "t", "u", "v", "w", "x", "y", "z">>

ByteOrder == <<NUL, LF, " ", "!", "#", "*", ".", "/", "=", "?">> \o UpperAZ
             \o <<"_">> \o LowerAZ \o <<"{", "}">>

PosIn(seq, c) == IF \E i \in 1..Len(seq) : seq[i] = c
                 THEN CHOOSE i \in 1..Len(seq) : seq[i] = c
                 ELSE 0

RECURSIVE StrLess(_, _)
\* a < b on Go strings (byte-wise lexical order)
StrLess(a, b) ==
    IF Len(b) = 0 THEN FALSE
    ELSE IF Len(a) = 0 THEN TRUE
    ELSE IF a[1] = b[1] THEN StrLess(Tail(a), Tail(b))
    ELSE PosIn(ByteOrder, a[1]) < PosIn(ByteOrder, b[1])

RECURSIVE SortStrings(_)
\* sort.Strings applied to a set of distinct strings
SortStrings(S) ==
    IF S = {} THEN <<>>
    ELSE LET m == CHOOSE x \in S : \A y \in S \ {x} : StrLess(x, y)
         IN  <<m>> \o SortStrings(S \ {m})

ToLower(s) ==
    [i \in 1..Len(s) |-> IF PosIn(UpperAZ, s[i]) > 0 THEN LowerAZ[PosIn(UpperAZ, s[i])]
                         ELSE s[i]]

ToUpper(s) ==
    [i \in 1..Len(s) |-> IF PosIn(LowerAZ, s[i]) > 0 THEN UpperAZ[PosIn(LowerAZ, s[i])]
                         ELSE s[i]]

(***************************************************************************)
(* internal/utils                                                          *)
(***************************************************************************)
Min(a, b) == IF a < b THEN a ELSE b

MaxBinaryCheckBytes == 8000

\* IsBinary looking at the first byte alone
IsBinaryFirstByte(data, maxCheckBytes) ==
    Min(Len(data), maxCheckBytes) >= 1 /\ data[1] = NUL

\* IsBinary looking at all of the data
IsBinaryWhole(data, maxCheckBytes) ==
    \E i \in 1..Len(data) : data[i] = NUL

IsBinary(data, maxCheckBytes) ==
    \E i \in 1..Min(Len(data), maxCheckBytes) : data[i] = NUL

OPEN == <<"{", "{">>
CLOSE == <<"}", "}">>
K_PROJECT_NAME == <<"P", "R", "O", "J", "E", "C", "T", "_", "N", "A", "M", "E">>
K_AUTHOR == <<"A", "U", "T", "H", "O", "R">>
K_PROJECT_NAME_LOWER == K_PROJECT_NAME \o <<"_", "L", "O", "W", "E", "R">>
K_PROJECT_NAME_UPPER == K_PROJECT_NAME \o <<"_", "U", "P", "P", "E", "R">>

Placeholder(k) == OPEN \o k \o CLOSE

\* the replacements map of ReplacePlaceholders: built-ins, then extraVars on top
Replacements(projectName, author, extraVars) ==
    LET builtin == (Placeholder(K_PROJECT_NAME) :> projectName)
                   @@ (Placeholder(K_AUTHOR) :> author)
                   @@ (Placeholder(K_PROJECT_NAME_LOWER) :> ToLower(projectName))
                   @@ (Placeholder(K_PROJECT_NAME_UPPER) :> ToUpper(projectName))
        extra == [ph \in {Placeholder(k) : k \in DOMAIN extraVars} |->
                    extraVars[CHOOSE k \in DOMAIN extraVars : Placeholder(k) = ph]]
    IN  extra @@ builtin

RECURSIVE ApplyInOrder(_, _, _)
ApplyInOrder(content, repl, order) ==
    IF Len(order) = 0 THEN content
    ELSE ApplyInOrder(ReplaceAll(content, order[1], repl[order[1]]), repl, Tail(order))

RECURSIVE Orders(_)
\* the orders in which a Go map with key set S may be ranged over
Orders(S) ==
    IF S = {} THEN {<<>>}
    ELSE UNION {{<<x>> \o o : o \in Orders(S \ {x})} : x \in S}

\* ReplacePlaceholders, the range over the replacements map taken in `order`
ReplacePlaceholders(content, projectName, author, extraVars, order) ==
    ApplyInOrder(content, Replacements(projectName, author, extraVars), order)

\* the lines bufio.Scanner yields: split at LF, a final empty line dropped
ScanLines(data) ==
    LET parts == SplitOn(data, LF)
    IN  IF parts[Len(parts)] = <<>> THEN SubSeq(parts, 1, Len(parts) - 1) ELSE parts

RECURSIVE KeepPatterns(_)
KeepPatterns(lines) ==
    IF Len(lines) = 0 THEN <<>>
    ELSE LET line == TrimSpace(lines[1])
         IN  IF line = <<>> \/ HasPrefix(line, <<"#">>) THEN KeepPatterns(Tail(lines))
             ELSE <<line>> \o KeepPatterns(Tail(lines))

RECURSIVE MatchIgnoreNoTrim(_, _)
\* MatchIgnore with the TrimSuffix of the pattern left out
MatchIgnoreNoTrim(relPath, patterns) ==
    IF Len(patterns) = 0 THEN FALSE
    ELSE LET normalizedPath == ToSlash(relPath)
             normalizedPattern == ToSlash(patterns[1])
         IN  \/ Match(normalizedPattern, normalizedPath)
             \/ HasPrefix(normalizedPath \o <<SEP>>, normalizedPattern \o <<SEP>>)
             \/ MatchIgnoreNoTrim(relPath, Tail(patterns))

RECURSIVE MatchIgnore(_, _)
MatchIgnore(relPath, patterns) ==
    IF Len(patterns) = 0 THEN FALSE
    ELSE LET normalizedPath == ToSlash(relPath)
             normalizedPattern == ToSlash(TrimSuffix(patterns[1], <<SEP>>))
         IN  \/ Match(normalizedPattern, normalizedPath)
             \/ HasPrefix(normalizedPath \o <<SEP>>, normalizedPattern \o <<SEP>>)
             \/ MatchIgnore(relPath, Tail(patterns))

(***************************************************************************)
(* The file system: a function from absolute cleaned paths to entries      *)
(* [dir, data].  There are no symbolic links, so filepath.EvalSymlinks     *)
(* returns its argument.  A path of more than MaxPathSegs elements is      *)
(* refused by the operating system (ENAMETOOLONG).                         *)
(***************************************************************************)
MaxPathSegs == 7

DirEntry == [dir |-> TRUE, data |-> <<>>]
FileEntry(data) == [dir |-> FALSE, data |-> data]

\* how the operating system resolves a path given to a system call
OsPath(wd, p) == IF IsAbs(p) THEN Clean(p) ELSE Join(wd, p)

Exists(f, p) == p \in DOMAIN f
IsDir(f, p) == p \in DOMAIN f /\ f[p].dir

\* p and the directories above it, the root directory excluded
Ancestors(p) ==
    LET e == Elems(p)
    IN  {<<SEP>> \o JoinWith(SubSeq(e, 1, i), SEP) : i \in 1..Len(e)}

\* q is p or lies beneath p (both absolute and cleaned)
IsUnder(q, p) == p \in Ancestors(q)

\* os.MkdirAll on an absolute path: [ok, fs]
\* os.Mkdir of the last segment: the call fails on a path that is there
MkdirExclusive(f, p) ==
    IF Exists(f, p) THEN [ok |-> FALSE, err |-> "EEXIST", fs |-> f]
    ELSE LET missing == {a \in Ancestors(p) \cup {p} : ~Exists(f, a)}
         IN  [ok |-> TRUE, err |-> "", fs |-> [a \in missing |-> DirEntry] @@ f]

MkdirAll(f, p) ==
    IF Len(Elems(p)) > MaxPathSegs THEN [ok |-> FALSE, err |-> "ENAMETOOLONG", fs |-> f]
    ELSE IF \E a \in Ancestors(p) : Exists(f, a) /\ ~f[a].dir
         THEN [ok |-> FALSE, err |-> "ENOTDIR", fs |-> f]
    ELSE [ok |-> TRUE, err |-> "",
          fs |-> [q \in DOMAIN f \cup Ancestors(p) |->
                     IF q \in DOMAIN f THEN f[q] ELSE DirEntry]]

\* os.WriteFile on an absolute path: [ok, fs]
WriteFile(f, p, data) ==
    IF Len(Elems(p)) > MaxPathSegs THEN [ok |-> FALSE, err |-> "ENAMETOOLONG", fs |-> f]
    ELSE IF ~IsDir(f, Dir(p)) THEN [ok |-> FALSE, err |-> "ENOENT", fs |-> f]
    ELSE IF IsDir(f, p) THEN [ok |-> FALSE, err |-> "EISDIR", fs |-> f]
    ELSE [ok |-> TRUE, err |-> "",
          fs |-> [q \in DOMAIN f \cup {p} |-> IF q = p THEN FileEntry(data) ELSE f[q]]]

\* the names of the entries of directory p from the last to the first
ReadDirNamesReversed(f, p) ==
    LET names == SortStrings({Base(q) : q \in {x \in DOMAIN f : x # p /\ Dir(x) = p}})
    IN  [i \in 1..Len(names) |-> names[Len(names) + 1 - i]]

\* readDirNames of filepath.Walk: the sorted names of the entries of directory p
ReadDirNames(f, p) == SortStrings({Base(q) : q \in {x \in DOMAIN f : x # p /\ Dir(x) = p}})

(***************************************************************************)
(* internal/project                                                        *)
(***************************************************************************)
S_node_modules == <<"n", "o", "d", "e", "_", "m", "o", "d", "u", "l", "e", "s">>
S_vendor == <<"v", "e", "n", "d", "o", "r">>
S_venv == <<".", "v", "e", "n", "v">>
S_dist == <<"d", "i", "s", "t">>
S_build == <<"b", "u", "i", "l", "d">>
S_git == <<".", "g", "i", "t">>
S_foundryignore == <<".", "f", "o", "u", "n", "d", "r", "y", "i", "g", "n", "o", "r", "e">>

\* shouldSkipDir with "dist" missing from the switch
ShouldSkipDirNoDist(name) == name \in {S_node_modules, S_vendor, S_venv, S_build, S_git}

shouldSkipDir(name) == name \in {S_node_modules, S_vendor, S_venv, S_dist, S_build, S_git}

\* utils.LoadIgnorePatterns(root, filename): a file that cannot be opened
\* yields no patterns
LoadIgnorePatterns(f, root, filename) ==
    LET ignorePath == Join(root, filename)
    IN  IF ~Exists(f, ignorePath) \/ f[ignorePath].dir THEN <<>>
        ELSE KeepPatterns(ScanLines(f[ignorePath].data))

\* resolvePaths: [absTargetDir, absSourceDir]
resolvePaths(wd, targetDir, sourceDir) ==
    [absTargetDir |-> OsPath(wd, targetDir), absSourceDir |-> OsPath(wd, sourceDir)]

isTargetInsideSource(absSourceDir, absTargetDir) ==
    LET r == Rel(absSourceDir, absTargetDir)
    IN  r.ok /\ ~HasPrefix(r.val, <<".", ".">>)

isTargetOrChild(srcPath, absSourceDir, targetRoot) ==
    LET relSrcFromSource == Rel(absSourceDir, srcPath).val
        relTarget == Rel(absSourceDir, targetRoot).val
    IN  \/ relSrcFromSource = relTarget
        \/ HasPrefix(relSrcFromSource \o <<SEP>>, relTarget \o <<SEP>>)

\* shouldSkipEntry: [skip, skipDir]
shouldSkipEntry(infoIsDir, infoName, srcPath, sourceRoot, targetRoot, absSourceDir, targetInsideSource, ignores) ==
    LET relPath == Rel(sourceRoot, srcPath)
    IN  IF infoIsDir /\ shouldSkipDir(infoName) THEN [skip |-> TRUE, skipDir |-> TRUE]
        ELSE IF targetInsideSource /\ isTargetOrChild(srcPath, absSourceDir, targetRoot)
             THEN [skip |-> TRUE, skipDir |-> infoIsDir]
        ELSE IF ~relPath.ok THEN [skip |-> FALSE, skipDir |-> FALSE]
        ELSE IF relPath.val = <<".">> THEN [skip |-> TRUE, skipDir |-> FALSE]
        ELSE IF MatchIgnore(ToSlash(relPath.val), ignores)
             THEN [skip |-> TRUE, skipDir |-> infoIsDir]
        ELSE [skip |-> FALSE, skipDir |-> FALSE]

\* joinDest that keeps the entry's name only
joinDestFlat(targetRoot, sourceRoot, srcPath) == Join(targetRoot, Base(srcPath))

joinDest(targetRoot, sourceRoot, srcPath) ==
    Join(targetRoot, Rel(sourceRoot, srcPath).val)

\* the callback of PreviewFromTemplate with its denylist check left out
previewDecisionNoDenylist(infoIsDir, infoName, srcPath, sourceRoot, targetDir, absSourceDir, targetInsideSource, ignores) ==
    LET relPath == Rel(sourceRoot, srcPath).val
    IN  IF targetInsideSource /\ isTargetOrChild(srcPath, absSourceDir, targetDir)
        THEN (IF infoIsDir THEN "skipdir" ELSE "skip")
        ELSE IF MatchIgnore(ToSlash(relPath), ignores)
             THEN (IF infoIsDir THEN "skipdir" ELSE "skip")
        ELSE IF relPath = <<".">> THEN "skip"
        ELSE "list"

\* the decision of the callback PreviewFromTemplate gives to filepath.Walk:
\* "skipdir", "skip" or "list"
previewDecision(infoIsDir, infoName, srcPath, sourceRoot, targetDir, absSourceDir, targetInsideSource, ignores) ==
    LET relPath == Rel(sourceRoot, srcPath).val
    IN  IF infoIsDir /\ shouldSkipDir(infoName) THEN "skipdir"
        ELSE IF targetInsideSource /\ isTargetOrChild(srcPath, absSourceDir, targetDir)
             THEN (IF infoIsDir THEN "skipdir" ELSE "skip")
        ELSE IF MatchIgnore(ToSlash(relPath), ignores)
             THEN (IF infoIsDir THEN "skipdir" ELSE "skip")
        ELSE IF relPath = <<".">> THEN "skip"
        ELSE "list"

(***************************************************************************)
(* State                                                                   *)
(***************************************************************************)
VARIABLES
    fs,           \* the file system
    fs0,          \* the file system when the run began
    cwd,          \* the working directory of the process
    tmplPath,     \* tmpl.Path, the absolute path ScanTemplate stored
    projectName,  \* args[0] of `new`; the projectName argument
    targetPath,   \* --path
    author,       \* cfg.Author
    extraVars,    \* --var, parsed
    cfgGit,       \* "git" is among cfg.InstalledDevTools
    cfgEditor,    \* cfg.VSCodePath, <<>> when it is not set
    config,       \* cfg.Templates (name and path of each) and cfg.LanguageDefaults as stored
    flags,        \* the flags and arguments of the invocation; of `new`:
                  \* [dryRun, gitURL, noGit, noPost]
    entry,        \* "api": PreviewFromTemplate, then CreateFromTemplate; "new": newCmd.Run;
                  \* "config": configCmd.Run
    pc,           \* "new", "preview", "create", "walk", "post", "done"
    mode,         \* which walk runs or ran last: "none", "preview", "create"
    call,         \* locals of the running call: absSourceDir, targetInsideSource, ignores
    stack,        \* entries filepath.Walk still has to visit, next first
    err,          \* the error the last call returned, "" for nil
    errPath,      \* the path that error names, <<>> when it names none
    unreadable,   \* the template entries the process has no permission to read
    files,        \* PreviewSummary.Files
    listed,       \* the source entry behind each element of files
    visited,      \* the entries the materializing walk handed to its callback
    ops,          \* the directories made and files written by the materializing walk
    destExisted,  \* the destination root existed when CreateFromTemplate was called
    procs,        \* the external commands started, in order, each with its outcome
    printed,      \* what Run reported once the copy was made, in order
    probe         \* a function of internal/utils called on its own: arguments and result

vars == <<fs, fs0, cwd, tmplPath, projectName, targetPath, author, extraVars, cfgGit,
          cfgEditor, config, flags, entry, pc, mode, call, stack, err, errPath,
          unreadable, files, listed, visited, ops, destExisted, procs, printed, probe>>

inputs == <<fs0, cwd, tmplPath, projectName, targetPath, author, extraVars, cfgGit,
            cfgEditor, config, entry, unreadable, probe>>

inputs_but_probe == <<fs0, cwd, tmplPath, projectName, targetPath, author, extraVars,
                      cfgGit, cfgEditor, config, entry, unreadable>>

\* determineProjectDir
determineProjectDir(name, path) == IF path # <<>> THEN Join(path, name) ELSE name

targetDir == determineProjectDir(projectName, targetPath)

AbsTarget == OsPath(cwd, targetDir)

NoCall == [absSourceDir |-> <<>>, targetInsideSource |-> FALSE, ignores |-> <<>>]

NoProbe == [fn |-> "none"]

\* the configuration as it is first written: no template, no language default
DefaultConfig == [Templates |-> <<>>, LanguageDefaults |-> <<>>]

NoFlags == [dryRun |-> FALSE, gitURL |-> <<>>, noGit |-> FALSE, noPost |-> FALSE]

(***************************************************************************)
(* Inputs                                                                  *)
(***************************************************************************)
S_t == <<SEP, "t">>
S_o == <<SEP, "o">>
S_a == <<"a">>
S_f == <<"f">>
S_demo == <<"d", "e", "m", "o">>
S_Ada == <<"A", "d", "a">>
S_README == <<"R", "E", "A", "D", "M", "E", ".", "m", "d">>
S_logo == <<"l", "o", "g", "o", ".", "p", "n", "g">>
S_pkg == <<"p", "k", "g">>
S_index == <<"i", "n", "d", "e", "x", ".", "j", "s">>
S_bundle == <<"b", "u", "n", "d", "l", "e", ".", "j", "s">>

ReadmeText == <<"#", " ">> \o Placeholder(K_PROJECT_NAME)
LogoBytes == <<"P", NUL>> \o Placeholder(K_PROJECT_NAME)
PlainText == <<"x">>
OldText == <<"o", "l", "d">>

P2(a, b) == a \o <<SEP>> \o b
P3(a, b, c) == a \o <<SEP>> \o b \o <<SEP>> \o c

\* the parts a template tree rooted at r is put together from
PartA(r) == (P2(r, S_a) :> DirEntry) @@ (P3(r, S_a, S_f) :> FileEntry(PlainText))

PartDist(r) == (P2(r, S_dist) :> DirEntry) @@ (P3(r, S_dist, S_bundle) :> FileEntry(PlainText))

PartStarter(r) ==
    (P2(r, S_README) :> FileEntry(ReadmeText))
    @@ (P2(r, S_logo) :> FileEntry(LogoBytes))
    @@ (P2(r, S_node_modules) :> DirEntry)
    @@ (P3(r, S_node_modules, S_pkg) :> DirEntry)
    @@ (P3(r, S_node_modules, P2(S_pkg, S_index)) :> FileEntry(PlainText))

Parts(r) == {PartA(r), PartDist(r), PartStarter(r)}

RECURSIVE Merge(_)
Merge(S) == IF S = {} THEN <<>> ELSE LET x == CHOOSE x \in S : TRUE IN x @@ Merge(S \ {x})

Lines(ls) == JoinWith(ls, LF) \o <<LF>>

\* the contents of .foundryignore a template may carry
IgnoreFiles ==
    { Lines(<< <<SEP>> \o S_dist \o <<SEP>> >>),
      Lines(<< <<SEP>> \o S_a \o <<SEP>> >>),
      Lines(<< S_a \o <<SEP>> >>),
      Lines(<< <<".", "*">> >>),
      Lines(<< <<"*">> >>),
      Lines(<< <<"#", " ", "c">>, <<>>, <<" ", "f", " ">>, <<"!">> \o S_dist,
               <<"!">> \o S_node_modules >>) }

\* [cwd, targetPath] pairs: outside the template and nested in it, relative
\* to the working directory and absolute
Destinations ==
    { [cwd |-> S_o, path |-> <<>>],
      [cwd |-> S_o, path |-> S_o],
      [cwd |-> S_t, path |-> <<>>],
      [cwd |-> S_o, path |-> S_t],
      [cwd |-> S_t, path |-> S_a],
      [cwd |-> S_o, path |-> P2(S_t, S_a)] }

\* a destination directory that is there before the run
OldDest(d) == (d :> DirEntry) @@ (P2(d, S_README) :> FileEntry(OldText))

\* f without p and what lies beneath it
Without(f, p) == [q \in {x \in DOMAIN f : ~IsUnder(x, p)} |-> f[q]]

\* root: the template directory; removed: whether it was deleted after it
\* was registered
InitAtRoot(root, parts, ignoreFiles, dests, existing, removed) ==
    /\ tmplPath = root
    /\ projectName = S_demo
    /\ author = S_Ada
    /\ extraVars = <<>>
    /\ \E d \in dests : cwd = d.cwd /\ targetPath = d.path
    /\ \E ps \in SUBSET parts, ig \in ignoreFiles \cup {<<>>}, old \in existing :
          LET base == (root :> DirEntry) @@ (S_o :> DirEntry)
              ign == IF ig = <<>> THEN <<>>
                     ELSE (P2(root, S_foundryignore) :> FileEntry(ig))
              tree == Merge(ps) @@ ign @@ base
              dest == IF old THEN MkdirAll(OldDest(AbsTarget) @@ tree, AbsTarget).fs
                      ELSE tree
          IN  \E gone \in removed : fs0 = IF gone THEN Without(dest, root) ELSE dest
    /\ fs = fs0
    /\ flags = NoFlags
    /\ mode = "none"
    /\ call = NoCall
    /\ stack = <<>>
    /\ err = ""
    /\ errPath = <<>>
    /\ unreadable = {}
    /\ files = <<>>
    /\ listed = <<>>
    /\ visited = <<>>
    /\ ops = <<>>
    /\ destExisted = FALSE
    /\ procs = <<>>
    /\ printed = <<>>

InitWithTemplate(parts, ignoreFiles, dests, existing, removed) ==
    InitAtRoot(S_t, parts, ignoreFiles, dests, existing, removed)

InitWith(parts, ignoreFiles, dests, existing) ==
    InitWithTemplate(parts, ignoreFiles, dests, existing, {FALSE})

Init ==
    /\ InitWith(Parts(S_t), IgnoreFiles, Destinations, BOOLEAN)
    /\ entry = "api"
    /\ cfgGit = TRUE
    /\ cfgEditor = <<>>
    /\ config = DefaultConfig
    /\ pc = "preview"
    /\ probe = NoProbe

(***************************************************************************)
(* PreviewFromTemplate and CreateFromTemplate up to their filepath.Walk    *)
(***************************************************************************)
\* filepath.Walk(root, fn): Lstat(root) fails when root is missing and the
\* callbacks hand that error back
StartWalk(m) ==
    /\ mode' = m
    /\ pc' = "walk"
    /\ IF Exists(fs', tmplPath)
       THEN stack' = <<tmplPath>> /\ err' = "" /\ errPath' = <<>>
       ELSE stack' = <<>> /\ err' = "ENOENT" /\ errPath' = tmplPath

PreviewFromTemplate ==
    /\ pc = "preview"
    /\ LET paths == resolvePaths(cwd, targetDir, tmplPath)
       IN  call' = [absSourceDir |-> paths.absSourceDir,
                    targetInsideSource |->
                        isTargetInsideSource(paths.absSourceDir, paths.absTargetDir),
                    ignores |-> LoadIgnorePatterns(fs, paths.absSourceDir, S_foundryignore)]
    /\ fs' = fs
    /\ files' = <<>>
    /\ listed' = <<>>
    /\ StartWalk("preview")
    /\ UNCHANGED <<inputs, flags, visited, ops, destExisted, procs, printed>>

\* ensureTargetDir that reports success and makes nothing
ensureTargetDirNotMade(f, wd, dir) == [ok |-> TRUE, err |-> "", fs |-> f]

\* ensureTargetDir: [ok, fs]
ensureTargetDir(f, wd, dir) == MkdirAll(f, OsPath(wd, dir))

CreateFromTemplate ==
    /\ pc = "create"
    /\ destExisted' = Exists(fs, AbsTarget)
    /\ visited' = <<>>
    /\ ops' = <<>>
    /\ LET made == ensureTargetDir(fs, cwd, targetDir)
           paths == resolvePaths(cwd, targetDir, tmplPath)
       IN  /\ fs' = made.fs
           /\ IF ~made.ok
              THEN /\ err' = made.err
                   /\ errPath' = targetDir
                   /\ pc' = "walk"
                   /\ mode' = "create"
                   /\ stack' = <<>>
                   /\ call' = NoCall
              ELSE /\ call' = [absSourceDir |-> paths.absSourceDir,
                               targetInsideSource |->
                                   isTargetInsideSource(paths.absSourceDir,
                                                        paths.absTargetDir),
                               ignores |-> LoadIgnorePatterns(made.fs, paths.absSourceDir,
                                                              S_foundryignore)]
                   /\ StartWalk("create")
    /\ UNCHANGED <<inputs, flags, files, listed, procs, printed>>

(***************************************************************************)
(* One visit of filepath.Walk: the names of a directory are read before    *)
(* the callback runs on it; SkipDir leaves them unvisited, an error ends   *)
(* the walk.                                                               *)
(***************************************************************************)
Children(f, p) ==
    LET names == ReadDirNames(f, p)
    IN  [i \in 1..Len(names) |-> Join(p, names[i])]

\* a walk that goes on after its callback returned an error
walkNextAnyway(ok, isDir, kids, rest) ==
    IF isDir /\ ok THEN kids \o rest ELSE rest

\* what filepath.Walk has left to visit when the callback returned from an
\* entry it did not skip: nothing after an error, else the entry's children
\* and then the rest
walkNext(ok, isDir, kids, rest) ==
    IF ~ok THEN <<>>
    ELSE IF isDir THEN kids \o rest
    ELSE rest

\* a walk that reads a directory whatever its callback returned
walkSkipDescends(skipDir, isDir, kids, rest) ==
    IF isDir THEN kids \o rest ELSE rest

\* what filepath.Walk has left to visit when the callback skipped the entry:
\* SkipDir leaves a directory unread, nil has it read like any other
walkSkip(skipDir, isDir, kids, rest) ==
    IF isDir /\ ~skipDir THEN kids \o rest ELSE rest

\* copyFileWithReplacements on absolute dst, the replacements map ranged over
\* in `order`: [ok, err, fs]
copyFileWithReplacements(f, src, dst, name, auth, extra, order) ==
    LET content == f[src].data
    IN  IF src \in unreadable THEN [ok |-> FALSE, err |-> "EACCES", fs |-> f]
        ELSE IF IsBinary(content, MaxBinaryCheckBytes) THEN WriteFile(f, dst, content)
        ELSE WriteFile(f, dst, ReplacePlaceholders(content, name, auth, extra, order))

\* what copyFileWithReplacements may leave behind, over the orders in which
\* the replacements map may be ranged over
CopyOutcomes(f, src, dst, name, auth, extra) ==
    IF IsBinary(f[src].data, MaxBinaryCheckBytes)
    THEN {copyFileWithReplacements(f, src, dst, name, auth, extra, <<>>)}
    ELSE {copyFileWithReplacements(f, src, dst, name, auth, extra, order) :
            order \in Orders(DOMAIN Replacements(name, auth, extra))}

\* the walker of copyTree on srcPath
WalkCreateStep ==
    /\ pc = "walk" /\ mode = "create" /\ stack # <<>>
    /\ LET srcPath == Head(stack)
           isDir == fs[srcPath].dir
           kids == IF isDir THEN Children(fs, srcPath) ELSE <<>>
           d == shouldSkipEntry(isDir, Base(srcPath), srcPath, tmplPath, targetDir,
                                call.absSourceDir, call.targetInsideSource, call.ignores)
           dstPath == joinDest(targetDir, tmplPath, srcPath)
           dst == OsPath(cwd, dstPath)
       IN  /\ visited' = Append(visited, srcPath)
           /\ IF isDir /\ srcPath \in unreadable
              THEN /\ stack' = <<>>
                   /\ err' = "EACCES"
                   /\ errPath' = srcPath
                   /\ UNCHANGED <<fs, ops>>
              ELSE IF d.skip
              THEN /\ stack' = walkSkip(d.skipDir, isDir, kids, Tail(stack))
                   /\ UNCHANGED <<fs, ops, err, errPath>>
              ELSE \E r \in IF isDir THEN {MkdirAll(fs, dst)}
                              ELSE CopyOutcomes(fs, srcPath, dst, projectName, author,
                                                extraVars) :
                         /\ fs' = r.fs
                         /\ err' = r.err
                         /\ errPath' = IF r.ok THEN <<>>
                                       ELSE IF r.err = "EACCES" THEN srcPath
                                       ELSE dstPath
                         /\ ops' = IF r.ok
                                   THEN Append(ops, [dir |-> isDir, src |-> srcPath,
                                                     dst |-> dst, arg |-> dstPath])
                                   ELSE ops
                         /\ stack' = walkNext(r.ok, isDir, kids, Tail(stack))
    /\ UNCHANGED <<inputs, flags, pc, mode, call, files, listed, destExisted, procs, printed>>

\* the callback of PreviewFromTemplate on srcPath
WalkPreviewStep ==
    /\ pc = "walk" /\ mode = "preview" /\ stack # <<>>
    /\ LET srcPath == Head(stack)
           isDir == fs[srcPath].dir
           kids == IF isDir THEN Children(fs, srcPath) ELSE <<>>
           d == previewDecision(isDir, Base(srcPath), srcPath, tmplPath, targetDir,
                                call.absSourceDir, call.targetInsideSource, call.ignores)
           dstPath == Join(targetDir, Rel(tmplPath, srcPath).val)
       IN  IF isDir /\ srcPath \in unreadable
           THEN /\ stack' = <<>>
                /\ err' = "EACCES"
                /\ errPath' = srcPath
                /\ UNCHANGED <<files, listed>>
           ELSE /\ files' = IF d = "list" THEN Append(files, dstPath) ELSE files
                /\ listed' = IF d = "list" THEN Append(listed, srcPath) ELSE listed
                /\ stack' = IF isDir /\ d # "skipdir" THEN kids \o Tail(stack)
                            ELSE Tail(stack)
                /\ UNCHANGED <<err, errPath>>
    /\ UNCHANGED <<inputs, fs, flags, pc, mode, call, visited, ops, destExisted, procs, printed>>

\* filepath.Walk has returned and the call returns to its caller: the one
\* that called PreviewFromTemplate goes on to CreateFromTemplate
WalkReturn ==
    /\ pc = "walk" /\ stack = <<>>
    /\ entry = "api"
    /\ pc' = IF mode = "preview" THEN "create" ELSE "done"
    /\ UNCHANGED <<inputs, fs, flags, mode, call, stack, err, errPath, files,
                   listed, visited, ops, destExisted, procs, printed>>

Next == PreviewFromTemplate \/ CreateFromTemplate \/ WalkCreateStep \/ WalkPreviewStep
        \/ WalkReturn

Spec == Init /\ [][Next]_vars

(***************************************************************************)
(* cmd: newCmd.Run.  External commands are recorded in procs when they are *)
(* started; of their effects the model keeps the directories and files     *)
(* the command itself relies on (the clone's directory, .git, .gitignore). *)
(***************************************************************************)
S_url == <<"u", "r", "l">>
S_gitignore == <<".", "g", "i", "t", "i", "g", "n", "o", "r", "e">>
S_code == <<"c", "o", "d", "e">>

\* tmpl.Language of the selected template
tmplLanguage == "Go"

FlagSets == [dryRun : BOOLEAN, gitURL : {<<>>, S_url}, noGit : BOOLEAN, noPost : BOOLEAN]

\* an external command as Run started it, and whether it ended well
Proc(cmd, ok) == [cmd |-> cmd, ok |-> ok]

\* exitWithError: the process ends with the message printed
Exit(e) == pc' = "done" /\ err' = e /\ errPath' = <<>>

\* the branch of Run taken when --git is given and git is an installed tool
NewGitClone ==
    /\ pc = "new"
    /\ \E fl \in FlagSets :
          /\ fl.gitURL # <<>> /\ cfgGit
          /\ flags' = fl
    /\ IF Exists(fs, AbsTarget)
       THEN Exit("exists") /\ UNCHANGED <<fs, procs, printed>>
       ELSE /\ printed' = printed
            /\ \E cloned \in BOOLEAN :
                 /\ procs' = Append(procs, Proc("git clone", cloned))
                 /\ IF cloned
                    THEN fs' = MkdirAll(fs, P2(AbsTarget, S_git)).fs /\ Exit("")
                    ELSE fs' = fs /\ Exit("clone failed")
    /\ UNCHANGED <<inputs, mode, call, stack, files, listed, visited, ops, destExisted>>

\* the template branch without its test of tmpl.Path
NewFromTemplateNoStat ==
    /\ pc = "new"
    /\ \E fl \in FlagSets :
          /\ ~(fl.gitURL # <<>> /\ cfgGit)
          /\ flags' = fl
          /\ IF Exists(fs, AbsTarget) THEN Exit("exists")
             ELSE pc' = (IF fl.dryRun THEN "preview" ELSE "create") /\ err' = ""
                  /\ errPath' = <<>>
    /\ UNCHANGED <<inputs, fs, mode, call, stack, files, listed, visited, ops,
                   destExisted, procs, printed>>

\* the template branch of Run up to the call of PreviewFromTemplate or
\* CreateFromTemplate
NewFromTemplate ==
    /\ pc = "new"
    /\ \E fl \in FlagSets :
          /\ ~(fl.gitURL # <<>> /\ cfgGit)
          /\ flags' = fl
          /\ IF ~Exists(fs, tmplPath) THEN Exit("template path no longer exists")
             ELSE IF Exists(fs, AbsTarget) THEN Exit("exists")
             ELSE pc' = (IF fl.dryRun THEN "preview" ELSE "create") /\ err' = ""
                  /\ errPath' = <<>>
    /\ UNCHANGED <<inputs, fs, mode, call, stack, files, listed, visited, ops,
                   destExisted, procs, printed>>

\* PreviewFromTemplate or CreateFromTemplate returns to Run
WalkReturnNew ==
    /\ pc = "walk" /\ stack = <<>>
    /\ entry = "new"
    /\ pc' = IF mode = "create" /\ err = "" THEN "post" ELSE "done"
    /\ UNCHANGED <<inputs, fs, flags, mode, call, stack, err, errPath, files,
                   listed, visited, ops, destExisted, procs, printed>>

\* post.RunLanguagePost starts a command for these languages only
HasLanguagePost(language) ==
    language \in {"Go", "JavaScript", "TypeScript", "React", "Python"}

\* a line Run prints about a step: "ok", "warning" or "skipped"
Said(kind, step) == [kind |-> kind, of |-> step]

SaidOf(step, ok) == Said(IF ok THEN "ok" ELSE "warning", step)

\* how the external commands of one run end; fetched is what curl printed
Outcomes ==
    [post : BOOLEAN, init : BOOLEAN, fetched : {<<>>, <<"*", ".", "o", LF>>},
     add : BOOLEAN, commit : BOOLEAN, editor : BOOLEAN]

\* post.RunLanguagePost: nil when the language has no command
RunLanguagePost(language, o) ==
    IF HasLanguagePost(language)
    THEN [procs |-> <<Proc("post", o.post)>>, ok |-> o.post]
    ELSE [procs |-> <<>>, ok |-> TRUE]

\* setupGitRepo that gives up when git init fails
setupGitRepoOrGiveUp(f, projectDir, noGit, o) ==
    IF noGit THEN [fs |-> f, procs |-> <<>>, printed |-> <<Said("skipped", "git")>>]
    ELSE IF ~o.init
    THEN [fs |-> f, procs |-> <<Proc("git init", FALSE)>>,
          printed |-> <<SaidOf("git init", FALSE)>>]
    ELSE LET gitignorePath == P2(projectDir, S_gitignore)
             f1 == MkdirAll(f, P2(projectDir, S_git)).fs
             absent == ~Exists(f1, gitignorePath)
             w == WriteFile(f1, gitignorePath, o.fetched)
             got == o.fetched # <<>>
         IN  [fs |-> IF absent /\ got /\ w.ok THEN w.fs ELSE f1,
              procs |-> <<Proc("git init", TRUE)>>
                        \o (IF absent THEN <<Proc("curl", got)>> ELSE <<>>)
                        \o <<Proc("git add", o.add), Proc("git commit", o.commit)>>,
              printed |-> <<SaidOf("git init", TRUE)>>
                          \o (IF absent THEN <<SaidOf("curl", got /\ w.ok)>> ELSE <<>>)
                          \o <<SaidOf("git add", o.add), SaidOf("git commit", o.commit)>>]

\* setupGitRepo that fetches and writes .gitignore without looking for one
setupGitRepoAlwaysFetch(f, projectDir, noGit, o) ==
    IF noGit THEN [fs |-> f, procs |-> <<>>, printed |-> <<Said("skipped", "git")>>]
    ELSE LET gitignorePath == P2(projectDir, S_gitignore)
             f1 == IF o.init THEN MkdirAll(f, P2(projectDir, S_git)).fs ELSE f
             w == WriteFile(f1, gitignorePath, o.fetched)
             got == o.fetched # <<>>
         IN  [fs |-> IF got /\ w.ok THEN w.fs ELSE f1,
              procs |-> <<Proc("git init", o.init), Proc("curl", got),
                          Proc("git add", o.add), Proc("git commit", o.commit)>>,
              printed |-> <<SaidOf("git init", o.init), SaidOf("curl", got /\ w.ok),
                            SaidOf("git add", o.add), SaidOf("git commit", o.commit)>>]

\* setupGitRepo: git init, a default .gitignore when the project has none,
\* git add, git commit; every failure is printed and the next step follows
setupGitRepo(f, projectDir, noGit, o) ==
    IF noGit THEN [fs |-> f, procs |-> <<>>, printed |-> <<Said("skipped", "git")>>]
    ELSE LET gitignorePath == P2(projectDir, S_gitignore)
             f1 == IF o.init THEN MkdirAll(f, P2(projectDir, S_git)).fs ELSE f
             absent == ~Exists(f1, gitignorePath)
             w == WriteFile(f1, gitignorePath, o.fetched)
             got == o.fetched # <<>>
         IN  [fs |-> IF absent /\ got /\ w.ok THEN w.fs ELSE f1,
              procs |-> <<Proc("git init", o.init)>>
                        \o (IF absent THEN <<Proc("curl", got)>> ELSE <<>>)
                        \o <<Proc("git add", o.add), Proc("git commit", o.commit)>>,
              printed |-> <<SaidOf("git init", o.init)>>
                          \o (IF absent THEN <<SaidOf("curl", got /\ w.ok)>> ELSE <<>>)
                          \o <<SaidOf("git add", o.add), SaidOf("git commit", o.commit)>>]

\* printSuccessMessage: the success line, setupGitRepo, the editor when
\* vscode_path is set, the next steps
printSuccessMessage(f, projectDir, noGit, editorPath, o) ==
    LET git == setupGitRepo(f, projectDir, noGit, o)
        open == editorPath # <<>>
    IN  [fs |-> git.fs,
         procs |-> git.procs \o (IF open THEN <<Proc("editor", o.editor)>> ELSE <<>>),
         printed |-> <<Said("success", "project")>> \o git.printed
                     \o (IF open THEN <<SaidOf("editor", o.editor)>> ELSE <<>>)
                     \o <<Said("next steps", "project")>>]

\* the rest of Run after CreateFromTemplate: post.RunLanguagePost unless
\* --no-post, then printSuccessMessage
NewPostCreate ==
    /\ pc = "post"
    /\ \E o \in Outcomes :
          LET ran == RunLanguagePost(tmplLanguage, o)
              post == IF flags.noPost
                      THEN [procs |-> <<>>, printed |-> <<Said("skipped", "post")>>]
                      ELSE [procs |-> ran.procs, printed |-> <<SaidOf("post", ran.ok)>>]
              rest == printSuccessMessage(fs, AbsTarget, flags.noGit, cfgEditor, o)
          IN  /\ procs' = procs \o post.procs \o rest.procs
              /\ printed' = printed \o post.printed \o rest.printed
              /\ fs' = rest.fs
    /\ pc' = "done"
    /\ UNCHANGED <<inputs, flags, mode, call, stack, err, errPath, files, listed,
                   visited, ops, destExisted>>

\* a template that brings its own .gitignore
PartGitignore(r) == P2(r, S_gitignore) :> FileEntry(PlainText)

InitNew ==
    /\ InitWithTemplate({PartStarter(S_t), PartGitignore(S_t)}, {},
                        {[cwd |-> S_o, path |-> <<>>], [cwd |-> S_o, path |-> S_t]},
                        BOOLEAN, BOOLEAN)
    /\ entry = "new"
    /\ cfgGit \in BOOLEAN
    /\ cfgEditor \in {<<>>, S_code}
    /\ config = DefaultConfig
    /\ pc = "new"
    /\ probe = NoProbe

NextNew == NewGitClone \/ NewFromTemplate \/ PreviewFromTemplate \/ CreateFromTemplate
           \/ WalkCreateStep \/ WalkPreviewStep \/ WalkReturnNew \/ NewPostCreate

SpecNew == InitNew /\ [][NextNew]_vars

(***************************************************************************)
(* utils.MatchIgnore called on its own, on pattern lists as                *)
(* LoadIgnorePatterns yields them (no empty pattern) and relative paths as *)
(* filepath.Rel yields them.                                               *)
(***************************************************************************)
MaxPatterns == 2

S_b == <<"b">>

ProbePatterns ==
    { S_a, S_a \o <<SEP>>, P2(S_a, S_b), P2(S_a, S_b) \o <<SEP>>, S_dist \o <<SEP>>,
      <<SEP>> \o S_a \o <<SEP>>, <<"*">>, <<".", "*">>, S_f, <<"?", "b">> }

ProbePaths ==
    { <<".">>, S_a, S_f, P2(S_a, S_b), P2(S_a, S_f), P3(S_a, S_b, S_f), <<"a", "b">>,
      S_dist, P2(S_dist, S_bundle), P2(S_b, S_a) }

SeqsUpTo(S, n) == UNION {[1..k -> S] : k \in 0..n}

\* nothing else runs: an empty template, no call in progress
InitMatch ==
    /\ InitWith({}, {}, {[cwd |-> S_o, path |-> <<>>]}, {FALSE})
    /\ entry = "probe"
    /\ cfgGit = TRUE
    /\ cfgEditor = <<>>
    /\ config = DefaultConfig
    /\ pc = "done"
    /\ \E r \in ProbePaths, ps \in SeqsUpTo(ProbePatterns, MaxPatterns) :
          probe = [fn |-> "MatchIgnore", relPath |-> r, patterns |-> ps,
                   done |-> FALSE, out |-> FALSE]

MatchIgnoreCall ==
    /\ probe.fn = "MatchIgnore" /\ ~probe.done
    /\ probe' = [probe EXCEPT !.done = TRUE,
                              !.out = MatchIgnore(probe.relPath, probe.patterns)]
    /\ UNCHANGED <<fs, fs0, cwd, tmplPath, projectName, targetPath, author, extraVars,
                   cfgGit, cfgEditor, config, flags, entry, pc, mode, call, stack, err,
                   errPath, unreadable, files, listed, visited, ops, destExisted, procs, printed>>

NextMatch == MatchIgnoreCall

SpecMatch == InitMatch /\ [][NextMatch]_vars

(***************************************************************************)
(* isTargetInsideSource called on its own, on absolute cleaned paths as    *)
(* resolvePaths yields them.                                               *)
(***************************************************************************)
S_dotdotcache == <<".", ".", "c", "a", "c", "h", "e">>

ResolvedNames == {S_a, S_demo, S_dotdotcache}

ResolvedPaths ==
    {S_t, S_o} \cup {P2(r, n) : r \in {S_t, S_o}, n \in ResolvedNames}
    \cup {P3(r, n, m) : r \in {S_t, S_o}, n \in ResolvedNames, m \in ResolvedNames}

InitInside ==
    /\ InitWith({}, {}, {[cwd |-> S_o, path |-> <<>>]}, {FALSE})
    /\ entry = "probe"
    /\ cfgGit = TRUE
    /\ cfgEditor = <<>>
    /\ config = DefaultConfig
    /\ pc = "done"
    /\ \E src \in {S_t, S_o, P2(S_t, S_a), P2(S_t, S_dotdotcache)}, dst \in ResolvedPaths :
          probe = [fn |-> "isTargetInsideSource", absSourceDir |-> src,
                   absTargetDir |-> dst, done |-> FALSE, out |-> FALSE]

IsTargetInsideSourceCall ==
    /\ probe.fn = "isTargetInsideSource" /\ ~probe.done
    /\ probe' = [probe EXCEPT !.done = TRUE,
                              !.out = isTargetInsideSource(probe.absSourceDir,
                                                           probe.absTargetDir)]
    /\ UNCHANGED <<inputs_but_probe, fs, flags, pc, mode, call, stack, err, errPath, files,
                   listed, visited, ops, destExisted, procs, printed>>

SpecInside == InitInside /\ [][IsTargetInsideSourceCall]_vars

(***************************************************************************)
(* CreateFromTemplate where reads and writes fail: entries of the template *)
(* the process may not read, and a destination that is there already and   *)
(* holds a file where the template has a directory, or a directory where   *)
(* the template has a file.                                                *)
(***************************************************************************)
BlockedDests(d) ==
    { OldDest(d),
      (d :> DirEntry) @@ (P2(d, S_a) :> FileEntry(OldText)),
      (d :> DirEntry) @@ (P2(d, S_logo) :> DirEntry),
      (d :> DirEntry) @@ (P2(d, S_a) :> DirEntry) @@ (P3(d, S_a, S_f) :> DirEntry) }

InitFail ==
    /\ tmplPath = S_t
    /\ cwd = S_o
    /\ targetPath = <<>>
    /\ projectName = S_demo
    /\ author = S_Ada
    /\ extraVars = <<>>
    /\ \E ps \in SUBSET Parts(S_t), old \in BlockedDests(P2(S_o, S_demo)) \cup {<<>>} :
          fs0 = old @@ Merge(ps) @@ (S_t :> DirEntry) @@ (S_o :> DirEntry)
    /\ \E p \in DOMAIN fs0 :
          /\ IsUnder(p, S_t)
          /\ unreadable \in {{}, {p}}
    /\ fs = fs0
    /\ cfgGit = TRUE
    /\ cfgEditor = <<>>
    /\ config = DefaultConfig
    /\ flags = NoFlags
    /\ entry = "api"
    /\ pc = "preview"
    /\ mode = "none"
    /\ call = NoCall
    /\ stack = <<>>
    /\ err = ""
    /\ errPath = <<>>
    /\ files = <<>>
    /\ listed = <<>>
    /\ visited = <<>>
    /\ ops = <<>>
    /\ destExisted = FALSE
    /\ procs = <<>>
    /\ printed = <<>>
    /\ probe = NoProbe

SpecFail == InitFail /\ [][Next]_vars

(***************************************************************************)
(* Both walks on a template whose own directory has a name of the          *)
(* denylist of shouldSkipDir.                                              *)
(***************************************************************************)
DenylistRoots == {<<SEP>> \o n : n \in {S_node_modules, S_vendor, S_venv, S_dist, S_build, S_git}}

InitRoot ==
    /\ \E root \in DenylistRoots :
          InitAtRoot(root, {PartA(root), PartStarter(root)}, IgnoreFiles,
                     {[cwd |-> S_o, path |-> <<>>]}, {FALSE}, {FALSE})
    /\ entry = "api"
    /\ cfgGit = TRUE
    /\ cfgEditor = <<>>
    /\ config = DefaultConfig
    /\ pc = "preview"
    /\ probe = NoProbe

SpecRoot == InitRoot /\ [][Next]_vars

(***************************************************************************)
(* cmd: configCmd.Run on the stored templates and language defaults.  A    *)
(* saved template has a name ValidateName accepted, so never the empty     *)
(* one, and a language default was stored by SetLanguageDefault.           *)
(***************************************************************************)
TemplateNames == {"go-api", "flask"}

Languages == {"Go", "Python"}

\* the names of the templates of a registry
TemplateNamesOf(ts) == {ts[i].Name : i \in DOMAIN ts}

Saved(n) == [Name |-> n, Path |-> S_t]

Registries ==
    {<<>>} \cup {<<Saved(n)>> : n \in TemplateNames}
    \cup {<<Saved(n), Saved(m)>> : <<n, m>> \in {nm \in TemplateNames \X TemplateNames : nm[1] # nm[2]}}

Configs ==
    UNION {{[Templates |-> ts, LanguageDefaults |-> d] :
               d \in UNION {[L -> TemplateNamesOf(ts)] : L \in SUBSET Languages}} :
           ts \in Registries}

\* args of `config`: cobra.MaximumNArgs(2)
ConfigArgs ==
    {<<>>} \cup {<<l>> : l \in Languages}
    \cup {<<l, t>> : l \in Languages, t \in TemplateNames \cup {"", "nope"}}

ConfigFlagSets == [view : BOOLEAN, args : ConfigArgs, clearDefault : {""} \cup Languages]

\* SetLanguageDefault that stores the name without looking for the template
SetLanguageDefaultUnverified(cfg, language, templateName) ==
    [ok |-> TRUE,
     cfg |-> [cfg EXCEPT !.LanguageDefaults = (language :> templateName) @@ @]]

\* SetLanguageDefault: the template has to be a saved one
SetLanguageDefault(cfg, language, templateName) ==
    IF templateName \notin TemplateNamesOf(cfg.Templates) THEN [ok |-> FALSE, cfg |-> cfg]
    ELSE [ok |-> TRUE,
          cfg |-> [cfg EXCEPT !.LanguageDefaults = (language :> templateName) @@ @]]

\* GetLanguageDefault: the zero value for a language without a default
GetLanguageDefault(cfg, language) ==
    IF language \in DOMAIN cfg.LanguageDefaults THEN cfg.LanguageDefaults[language]
    ELSE ""

\* ClearLanguageDefault: delete(cfg.LanguageDefaults, language)
ClearLanguageDefault(cfg, language) ==
    [cfg EXCEPT !.LanguageDefaults = [l \in (DOMAIN @) \ {language} |-> @[l]]]

\* configCmd.Run: --view prints and returns; two arguments set a language
\* default and a failure ends the process there; then --clear-default:
\* [err, cfg]
configRun(cfg, fl) ==
    LET set == IF Len(fl.args) = 2
               THEN SetLanguageDefault(cfg, fl.args[1], fl.args[2])
               ELSE [ok |-> TRUE, cfg |-> cfg]
        cleared == IF fl.clearDefault # ""
                   THEN ClearLanguageDefault(set.cfg, fl.clearDefault)
                   ELSE set.cfg
    IN  IF fl.view THEN [err |-> "", cfg |-> cfg]
        ELSE IF ~set.ok THEN [err |-> "template not found", cfg |-> cfg]
        ELSE [err |-> "", cfg |-> cleared]

\* one `config` invocation
ConfigRun ==
    /\ pc = "config"
    /\ \E fl \in ConfigFlagSets :
          /\ flags' = fl
          /\ config' = configRun(config, fl).cfg
          /\ Exit(configRun(config, fl).err)
    /\ UNCHANGED <<fs, fs0, cwd, tmplPath, projectName, targetPath, author, extraVars,
                   cfgGit, cfgEditor, entry, mode, call, stack, unreadable, files,
                   listed, visited, ops, destExisted, procs, printed, probe>>

\* the state in which a command that works on the stored configuration
\* starts, the configuration being one of cfgs
InitStore(cfgs) ==
    /\ config \in cfgs
    /\ tmplPath = S_t
    /\ cwd = S_o
    /\ projectName = <<>>
    /\ targetPath = <<>>
    /\ author = S_Ada
    /\ extraVars = <<>>
    /\ fs0 = (S_t :> DirEntry) @@ (S_o :> DirEntry)
    /\ fs = fs0
    /\ cfgGit = TRUE
    /\ cfgEditor = <<>>
    /\ mode = "none"
    /\ call = NoCall
    /\ stack = <<>>
    /\ err = ""
    /\ errPath = <<>>
    /\ unreadable = {}
    /\ files = <<>>
    /\ listed = <<>>
    /\ visited = <<>>
    /\ ops = <<>>
    /\ destExisted = FALSE
    /\ procs = <<>>
    /\ printed = <<>>
    /\ probe = NoProbe

InitConfig ==
    /\ InitStore(Configs)
    /\ entry = "config"
    /\ pc = "config"
    /\ flags = [view |-> FALSE, args |-> <<>>, clearDefault |-> ""]

SpecConfig == InitConfig /\ [][ConfigRun]_vars

(***************************************************************************)
(* The registry over a series of invocations, from the configuration as it *)
(* is first written: `template add`, `template remove` and `config`, one   *)
(* after the other.  The stored configuration is what one invocation       *)
(* leaves to the next.                                                     *)
(***************************************************************************)
MaxTemplates == 3

\* ValidateName, on the names of the model, none of which has a character
\* the function rejects
ValidateName(name) == name # ""

\* AddTemplate that appends whatever the registry holds
AddTemplateAppends(cfg, tmpl) == [cfg EXCEPT !.Templates = Append(@, tmpl)]

\* AddTemplate: an entry of the same name is replaced where it is
AddTemplate(cfg, tmpl) ==
    LET same == {i \in DOMAIN cfg.Templates : cfg.Templates[i].Name = tmpl.Name}
    IN  IF same # {}
        THEN [cfg EXCEPT !.Templates[CHOOSE i \in same : \A j \in same : i <= j] = tmpl]
        ELSE [cfg EXCEPT !.Templates = Append(@, tmpl)]

\* RemoveTemplate: [ok, cfg]
RemoveTemplate(cfg, name) ==
    IF name \notin TemplateNamesOf(cfg.Templates) THEN [ok |-> FALSE, cfg |-> cfg]
    ELSE [ok |-> TRUE,
          cfg |-> [cfg EXCEPT !.Templates = SelectSeq(@, LAMBDA t : t.Name # name)]]

\* IsDefaultTemplate: the languages whose default is templateName
IsDefaultTemplate(cfg, templateName) ==
    {l \in DOMAIN cfg.LanguageDefaults : cfg.LanguageDefaults[l] = templateName}

\* `template add <name> <path>` on a directory that is there
TemplateAddRun ==
    /\ pc = "shell"
    /\ Len(config.Templates) < MaxTemplates
    /\ \E name \in TemplateNames \cup {""}, path \in {S_t, S_o} :
          /\ flags' = [cmd |-> "template add", name |-> name, path |-> path]
          /\ IF ~IsDir(fs, path) THEN config' = config /\ err' = "cannot access path"
             ELSE IF ~ValidateName(name) THEN config' = config /\ err' = "invalid name"
             ELSE /\ config' = AddTemplate(config, [Name |-> name, Path |-> path])
                  /\ err' = ""
    /\ UNCHANGED <<fs, fs0, cwd, tmplPath, projectName, targetPath, author, extraVars,
                   cfgGit, cfgEditor, entry, pc, mode, call, stack, errPath, unreadable,
                   files, listed, visited, ops, destExisted, procs, printed, probe>>

\* `template remove <name>`, with or without --force
TemplateRemoveRun ==
    /\ pc = "shell"
    /\ \E name \in TemplateNames, force \in BOOLEAN :
          /\ flags' = [cmd |-> "template remove", name |-> name, force |-> force]
          /\ IF IsDefaultTemplate(config, name) # {} /\ ~force
             THEN config' = config /\ err' = "is the default"
             ELSE /\ config' = RemoveTemplate(config, name).cfg
                  /\ err' = IF RemoveTemplate(config, name).ok THEN "" ELSE "not found"
    /\ UNCHANGED <<fs, fs0, cwd, tmplPath, projectName, targetPath, author, extraVars,
                   cfgGit, cfgEditor, entry, pc, mode, call, stack, errPath, unreadable,
                   files, listed, visited, ops, destExisted, procs, printed, probe>>

\* `config`, as one of the series
ConfigShellRun ==
    /\ pc = "shell"
    /\ \E fl \in ConfigFlagSets :
          /\ flags' = [cmd |-> "config", given |-> fl]
          /\ config' = configRun(config, fl).cfg
          /\ err' = configRun(config, fl).err
    /\ UNCHANGED <<fs, fs0, cwd, tmplPath, projectName, targetPath, author, extraVars,
                   cfgGit, cfgEditor, entry, pc, mode, call, stack, errPath, unreadable,
                   files, listed, visited, ops, destExisted, procs, printed, probe>>

(***************************************************************************)
(* Two `new` invocations at once, same arguments, same working directory:  *)
(* two processes on one file system.  Each has its own position, walk and  *)
(* error, so pc, mode, call, stack, err, errPath, visited and destExisted  *)
(* hold one value per invocation here; fs is shared and ops is the one     *)
(* sequence of what either wrote, each element with its invocation.  A     *)
(* step is one system-call-sized piece of Run: the two os.Stat checks, the *)
(* start of CreateFromTemplate, one visit of the walk.                     *)
(***************************************************************************)
Invocations == {1, 2}

\* Run up to the call of CreateFromTemplate: the template path is there and
\* os.Stat(projectDir) gave an error
RaceNewFromTemplate ==
    \E p \in Invocations :
       /\ pc[p] = "new"
       /\ IF ~Exists(fs, tmplPath)
          THEN pc' = [pc EXCEPT ![p] = "done"]
               /\ err' = [err EXCEPT ![p] = "template path no longer exists"]
          ELSE IF Exists(fs, AbsTarget)
          THEN pc' = [pc EXCEPT ![p] = "done"] /\ err' = [err EXCEPT ![p] = "exists"]
          ELSE pc' = [pc EXCEPT ![p] = "create"] /\ err' = [err EXCEPT ![p] = ""]
       /\ UNCHANGED <<inputs, fs, flags, mode, call, stack, errPath, files, listed,
                      visited, ops, destExisted, procs, printed>>

\* CreateFromTemplate up to filepath.Walk
RaceCreateFromTemplate ==
    \E p \in Invocations :
       /\ pc[p] = "create"
       /\ destExisted' = [destExisted EXCEPT ![p] = Exists(fs, AbsTarget)]
       /\ visited' = [visited EXCEPT ![p] = <<>>]
       /\ mode' = [mode EXCEPT ![p] = "create"]
       /\ pc' = [pc EXCEPT ![p] = "walk"]
       /\ LET made == ensureTargetDir(fs, cwd, targetDir)
              paths == resolvePaths(cwd, targetDir, tmplPath)
          IN  /\ fs' = made.fs
              /\ IF ~made.ok
                 THEN /\ err' = [err EXCEPT ![p] = made.err]
                      /\ errPath' = [errPath EXCEPT ![p] = targetDir]
                      /\ stack' = [stack EXCEPT ![p] = <<>>]
                      /\ call' = [call EXCEPT ![p] = NoCall]
                 ELSE /\ call' = [call EXCEPT ![p] =
                                    [absSourceDir |-> paths.absSourceDir,
                                     targetInsideSource |->
                                         isTargetInsideSource(paths.absSourceDir,
                                                              paths.absTargetDir),
                                     ignores |-> LoadIgnorePatterns(made.fs,
                                                     paths.absSourceDir, S_foundryignore)]]
                      /\ IF Exists(made.fs, tmplPath)
                         THEN /\ stack' = [stack EXCEPT ![p] = <<tmplPath>>]
                              /\ err' = [err EXCEPT ![p] = ""]
                              /\ errPath' = [errPath EXCEPT ![p] = <<>>]
                         ELSE /\ stack' = [stack EXCEPT ![p] = <<>>]
                              /\ err' = [err EXCEPT ![p] = "ENOENT"]
                              /\ errPath' = [errPath EXCEPT ![p] = tmplPath]
       /\ UNCHANGED <<inputs, flags, files, listed, ops, procs, printed>>

\* the walker of copyTree on the next entry of one invocation
RaceWalkCreateStep ==
    \E p \in Invocations :
       /\ pc[p] = "walk" /\ stack[p] # <<>>
       /\ LET srcPath == Head(stack[p])
              isDir == fs[srcPath].dir
              kids == IF isDir THEN Children(fs, srcPath) ELSE <<>>
              d == shouldSkipEntry(isDir, Base(srcPath), srcPath, tmplPath, targetDir,
                                   call[p].absSourceDir, call[p].targetInsideSource,
                                   call[p].ignores)
              dstPath == joinDest(targetDir, tmplPath, srcPath)
              dst == OsPath(cwd, dstPath)
          IN  /\ visited' = [visited EXCEPT ![p] = Append(@, srcPath)]
              /\ IF d.skip
                 THEN /\ stack' = [stack EXCEPT ![p] = walkSkip(d.skipDir, isDir, kids, Tail(@))]
                      /\ UNCHANGED <<fs, ops, err, errPath>>
                 ELSE \E r \in IF isDir THEN {MkdirAll(fs, dst)}
                                 ELSE CopyOutcomes(fs, srcPath, dst, projectName, author,
                                                   extraVars) :
                            /\ fs' = r.fs
                            /\ err' = [err EXCEPT ![p] = r.err]
                            /\ errPath' = [errPath EXCEPT ![p] = IF r.ok THEN <<>> ELSE dstPath]
                            /\ ops' = IF r.ok
                                      THEN Append(ops, [by |-> p, dir |-> isDir,
                                                        src |-> srcPath, dst |-> dst,
                                                        arg |-> dstPath])
                                      ELSE ops
                            /\ stack' = [stack EXCEPT ![p] = walkNext(r.ok, isDir, kids, Tail(@))]
       /\ UNCHANGED <<inputs, flags, pc, mode, call, files, listed, destExisted, procs,
                      printed>>

\* filepath.Walk has returned; what Run does after the copy is left out
RaceWalkReturn ==
    \E p \in Invocations :
       /\ pc[p] = "walk" /\ stack[p] = <<>>
       /\ pc' = [pc EXCEPT ![p] = "done"]
       /\ UNCHANGED <<inputs, fs, flags, mode, call, stack, err, errPath, files, listed,
                      visited, ops, destExisted, procs, printed>>

\* both invocations have been started and neither has run; the destination
\* is not there
InitRace ==
    /\ tmplPath = S_t
    /\ cwd = S_o
    /\ projectName = S_demo
    /\ targetPath = <<>>
    /\ author = S_Ada
    /\ extraVars = <<>>
    /\ cfgGit = FALSE
    /\ cfgEditor = <<>>
    /\ config = DefaultConfig
    /\ \E ps \in SUBSET {PartStarter(S_t), PartA(S_t)} :
          fs0 = Merge(ps) @@ (S_t :> DirEntry) @@ (S_o :> DirEntry)
    /\ fs = fs0
    /\ flags = NoFlags
    /\ entry = "race"
    /\ pc = [p \in Invocations |-> "new"]
    /\ mode = [p \in Invocations |-> "none"]
    /\ call = [p \in Invocations |-> NoCall]
    /\ stack = [p \in Invocations |-> <<>>]
    /\ err = [p \in Invocations |-> ""]
    /\ errPath = [p \in Invocations |-> <<>>]
    /\ visited = [p \in Invocations |-> <<>>]
    /\ destExisted = [p \in Invocations |-> FALSE]
    /\ unreadable = {}
    /\ files = <<>>
    /\ listed = <<>>
    /\ ops = <<>>
    /\ procs = <<>>
    /\ printed = <<>>
    /\ probe = NoProbe

NextRace == RaceNewFromTemplate \/ RaceCreateFromTemplate \/ RaceWalkCreateStep
            \/ RaceWalkReturn

SpecRace == InitRace /\ [][NextRace]_vars

InitTemplates ==
    /\ InitStore({DefaultConfig})
    /\ entry = "shell"
    /\ pc = "shell"
    /\ flags = [cmd |-> "none"]

NextTemplates == TemplateAddRun \/ TemplateRemoveRun \/ ConfigShellRun

SpecTemplates == InitTemplates /\ [][NextTemplates]_vars

(***************************************************************************)
(* Functions called on their own start from a state in which nothing else  *)
(* runs: the directories /t and /o and the files of f.                     *)
(***************************************************************************)
InitIdle(f) ==
    /\ tmplPath = S_t
    /\ cwd = S_o
    /\ targetPath = <<>>
    /\ fs0 = f @@ (S_t :> DirEntry) @@ (S_o :> DirEntry)
    /\ fs = fs0
    /\ cfgGit = TRUE
    /\ cfgEditor = <<>>
    /\ config = DefaultConfig
    /\ flags = NoFlags
    /\ entry = "probe"
    /\ pc = "done"
    /\ mode = "none"
    /\ call = NoCall
    /\ stack = <<>>
    /\ err = ""
    /\ errPath = <<>>
    /\ unreadable = {}
    /\ files = <<>>
    /\ listed = <<>>
    /\ visited = <<>>
    /\ ops = <<>>
    /\ destExisted = FALSE
    /\ procs = <<>>
    /\ printed = <<>>

(***************************************************************************)
(* utils.IsBinary and copyFileWithReplacements on files about as long as   *)
(* the number of bytes IsBinary looks at.  A file is "x" bytes with the    *)
(* token {{AUTHOR}} in bytes 2..11 and zero bytes at chosen positions.     *)
(***************************************************************************)
FileLens == {0, 1, 7999, 8000, 8001}

ZeroAt == {1, 8000, 8001}

FileOf(len, zeros) ==
    LET byte == [i \in 1..len |-> IF i \in zeros THEN NUL
                                  ELSE IF len >= 11 /\ i \in 2..11
                                       THEN Placeholder(K_AUTHOR)[i - 1]
                                  ELSE "x"]
    IN  SubSeq(byte, 1, len)

BigFiles == {FileOf(len, zeros) : len \in FileLens, zeros \in SUBSET ZeroAt}

InitBinary ==
    /\ projectName = S_demo
    /\ author = S_Ada
    /\ extraVars = <<>>
    /\ \E data \in BigFiles, other \in BigFiles :
          /\ InitIdle(P2(S_t, S_f) :> FileEntry(data))
          /\ probe = [fn |-> "IsBinary", data |-> data, other |-> other, done |-> FALSE,
                      out |-> FALSE, outOther |-> FALSE]

\* IsBinary on two files, and copyFileWithReplacements of the first
IsBinaryCall ==
    /\ probe.fn = "IsBinary" /\ ~probe.done
    /\ probe' = [probe EXCEPT !.done = TRUE,
                              !.out = IsBinary(probe.data, MaxBinaryCheckBytes),
                              !.outOther = IsBinary(probe.other, MaxBinaryCheckBytes)]
    /\ \E r \in CopyOutcomes(fs, P2(S_t, S_f), P2(S_o, S_f), projectName, author,
                              extraVars) :
          fs' = r.fs /\ err' = r.err /\ errPath' = <<>>
    /\ UNCHANGED <<inputs_but_probe, flags, pc, mode, call, stack, files, listed, visited,
                   ops, destExisted, procs, printed>>

NextBinary == IsBinaryCall

SpecBinary == InitBinary /\ [][NextBinary]_vars

(***************************************************************************)
(* Placeholder expansion called on its own, at its two call sites:         *)
(* utils.ReplacePlaceholders ("utils") and the replacements written out in *)
(* cmd's own copyFileWithReplacements ("cmd").  A text is expanded, and    *)
(* the result expanded again with the same arguments.                      *)
(***************************************************************************)
S_X == <<"X">>
S_v == <<"v">>
S_by == <<" ", "b", "y", " ">>

\* cmd/new.go's copyFileWithReplacements: the four built-in tokens in the
\* order written, then the range over extraVars taken in `order`
cmdReplace(content, name, auth, extra, order) ==
    LET c1 == ReplaceAll(content, Placeholder(K_PROJECT_NAME), name)
        c2 == ReplaceAll(c1, Placeholder(K_AUTHOR), auth)
        c3 == ReplaceAll(c2, Placeholder(K_PROJECT_NAME_LOWER), ToLower(name))
        c4 == ReplaceAll(c3, Placeholder(K_PROJECT_NAME_UPPER), ToUpper(name))
        repl == [ph \in {Placeholder(k) : k \in DOMAIN extra} |->
                    extra[CHOOSE k \in DOMAIN extra : Placeholder(k) = ph]]
    IN  ApplyInOrder(c4, repl, order)

\* what a call site may return for content, over the orders of its map range
Expansions(site, content, name, auth, extra) ==
    IF site = "utils"
    THEN {ReplacePlaceholders(content, name, auth, extra, order) :
            order \in Orders(DOMAIN Replacements(name, auth, extra))}
    ELSE {cmdReplace(content, name, auth, extra, order) :
            order \in Orders({Placeholder(k) : k \in DOMAIN extra})}

ProbeTexts ==
    { Placeholder(K_PROJECT_NAME) \o S_by \o Placeholder(K_AUTHOR),
      OPEN \o Placeholder(K_PROJECT_NAME) \o CLOSE,
      Placeholder(K_AUTHOR) \o Placeholder(K_AUTHOR),
      Placeholder(K_PROJECT_NAME_LOWER) \o <<"-">> \o Placeholder(K_PROJECT_NAME_UPPER),
      Placeholder(S_X) \o <<" ">> \o Placeholder(K_PROJECT_NAME),
      <<"{">> \o Placeholder(K_AUTHOR) \o <<"{">> \o K_AUTHOR \o CLOSE,
      PlainText }

ProbeNames == {S_demo, K_AUTHOR, <<"D", "e", "m", "o">>}

ProbeAuthors == {S_Ada, <<>>, Placeholder(K_PROJECT_NAME)}

ProbeExtras ==
    { <<>>,
      S_X :> S_v,
      S_X :> Placeholder(K_AUTHOR),
      K_PROJECT_NAME :> S_v,
      (K_AUTHOR :> S_v) @@ (S_X :> S_Ada) }

InitReplace ==
    /\ InitIdle(<<>>)
    /\ projectName \in ProbeNames
    /\ author \in ProbeAuthors
    /\ extraVars \in ProbeExtras
    /\ \E site \in {"utils", "cmd"}, t \in ProbeTexts :
          probe = [fn |-> "ReplacePlaceholders", site |-> site, content |-> t,
                   calls |-> 0, out |-> t, again |-> t]

\* the first expansion, of the text
ReplaceCall ==
    /\ probe.fn = "ReplacePlaceholders" /\ probe.calls = 0
    /\ \E r \in Expansions(probe.site, probe.content, projectName, author, extraVars) :
          probe' = [probe EXCEPT !.calls = 1, !.out = r, !.again = r]
    /\ UNCHANGED <<inputs_but_probe, fs, flags, pc, mode, call, stack, err, errPath, files,
                   listed, visited, ops, destExisted, procs, printed>>

\* the second expansion, of the result of the first
ReplaceAgainCall ==
    /\ probe.fn = "ReplacePlaceholders" /\ probe.calls = 1
    /\ \E r \in Expansions(probe.site, probe.out, projectName, author, extraVars) :
          probe' = [probe EXCEPT !.calls = 2, !.again = r]
    /\ UNCHANGED <<inputs_but_probe, fs, flags, pc, mode, call, stack, err, errPath, files,
                   listed, visited, ops, destExisted, procs, printed>>

NextReplace == ReplaceCall \/ ReplaceAgainCall

SpecReplace == InitReplace /\ [][NextReplace]_vars

(***************************************************************************)
(* Properties                                                              *)
(***************************************************************************)
\* the destination resolves to a directory nested inside the template root
Nested == AbsTarget # tmplPath /\ IsUnder(AbsTarget, tmplPath)

Finished == pc = "done" /\ mode = "create"

\* C1: when the destination is nested inside the template root, however it
\* was passed, the materializing walk never copies an entry located at or
\* under the destination, nor makes a destination directory for one.
C1_NoCopyFromDestination ==
    Nested => \A i \in DOMAIN ops : ~IsUnder(ops[i].src, AbsTarget)

\* C2: with the destination nested inside the template, the walk ends having
\* visited a number of entries the template bounds: the directories it makes
\* under the destination do not feed it ever deeper entries, so it is never
\* the operating system's path limit that stops it.
C2_NestedWalkBounded ==
    Nested => err # "ENAMETOOLONG"

IgnoreFilePath == P2(tmplPath, S_foundryignore)

\* the content of the template's .foundryignore, empty when there is none
IgnoreData == IF Exists(fs0, IgnoreFilePath) THEN fs0[IgnoreFilePath].data ELSE <<>>

Range(seq) == {seq[i] : i \in DOMAIN seq}

\* C3: on a fresh destination the paths PreviewFromTemplate reports are
\* exactly the paths CreateFromTemplate's walk creates, for every template
\* tree and every ignore file (stated here for destinations outside the
\* template).
C3_PreviewEqualsCreate ==
    (Finished /\ entry = "api" /\ ~destExisted /\ ~IsUnder(AbsTarget, tmplPath) /\ err = "")
        => Range(files) = {ops[i].arg : i \in DOMAIN ops}

\* C5: when the destination root exists already, CreateFromTemplate reports
\* an error, visits no template entry and leaves the file system as it was.
C5_ExistingDestinationRefused ==
    (mode = "create" /\ destExisted)
        => /\ visited = <<>>
           /\ fs = fs0
           /\ (pc = "done" => err # "")

\* the names of the denylist, as the specification gives them
DenylistNames == {S_node_modules, S_vendor, S_venv, S_dist, S_build, S_git}

\* p is, or lies beneath, a directory of the template with a denylisted name
UnderDenylisted(p) ==
    \E a \in Ancestors(p) :
        IsUnder(a, tmplPath) /\ IsDir(fs, a) /\ Base(a) \in DenylistNames

\* p lies beneath such a directory
BelowDenylisted(p) == p # tmplPath /\ UnderDenylisted(Dir(p))

\* C6: whatever the ignore file holds, neither walk copies or lists a
\* directory with a denylisted name or anything beneath it, and the
\* materializing walk visits nothing beneath it.
C6_DenylistPruned ==
    /\ \A i \in DOMAIN ops : ~UnderDenylisted(ops[i].src)
    /\ \A i \in DOMAIN listed : ~UnderDenylisted(listed[i])
    /\ \A i \in DOMAIN visited : ~BelowDenylisted(visited[i])

NegationIgnore ==
    Lines(<< <<"#", " ", "c">>, <<>>, <<" ", "f", " ">>, <<"!">> \o S_dist,
             <<"!">> \o S_node_modules >>)

\* both walks are over on a template with dist and node_modules whose ignore
\* file tries to re-include them, and both produced something
C6_Witness ==
    /\ Finished /\ err = ""
    /\ IgnoreData = NegationIgnore
    /\ Exists(fs0, P3(tmplPath, S_dist, S_bundle))
    /\ Exists(fs0, P3(tmplPath, S_node_modules, P2(S_pkg, S_index)))
    /\ ops # <<>> /\ files # <<>>

\* the path of p relative to the directory root above it
Below(root, p) == SubSeq(p, Len(root) + 2, Len(p))

\* p, or a directory above it inside the template, matches an ignore pattern
Ignored(p) ==
    \E a \in Ancestors(p) :
        /\ a # tmplPath /\ IsUnder(a, tmplPath)
        /\ MatchIgnore(Below(tmplPath, a), KeepPatterns(ScanLines(IgnoreData)))

\* the template files the output is to hold
WantedFiles ==
    {p \in DOMAIN fs0 : /\ ~fs0[p].dir
                        /\ p # tmplPath /\ IsUnder(p, tmplPath)
                        /\ ~UnderDenylisted(p)
                        /\ ~Ignored(p)}

\* what a template file's content becomes in the output
WantedData(data) ==
    IF data = ReadmeText THEN <<"#", " ">> \o projectName ELSE data

OutputOf(p) == AbsTarget \o <<SEP>> \o Below(tmplPath, p)

\* C7: materializing into a fresh destination outside the template leaves
\* in the destination exactly one file per template file that is neither
\* under a denylisted directory nor ignored; text is written with its
\* placeholders expanded, binary content byte for byte.
C7_OutputSet ==
    (Finished /\ err = "" /\ ~destExisted /\ ~IsUnder(AbsTarget, tmplPath))
        => /\ {p \in DOMAIN fs : ~fs[p].dir /\ IsUnder(p, AbsTarget)}
                = {OutputOf(p) : p \in WantedFiles}
           /\ \A p \in WantedFiles : fs[OutputOf(p)].data = WantedData(fs0[p].data)

\* the scenario of the specification: README.md, logo.png and
\* node_modules/pkg/index.js materialized with project name "demo"
C7_Witness ==
    /\ Finished /\ err = "" /\ ~destExisted /\ ~IsUnder(AbsTarget, tmplPath)
    /\ IgnoreData = <<>>
    /\ Exists(fs0, P3(tmplPath, S_node_modules, P2(S_pkg, S_index)))
    /\ ~Exists(fs0, P2(tmplPath, S_a)) /\ ~Exists(fs0, P2(tmplPath, S_dist))
    /\ fs[P2(AbsTarget, S_README)].data = <<"#", " ", "d", "e", "m", "o">>
    /\ fs[P2(AbsTarget, S_logo)].data = LogoBytes
    /\ ~Exists(fs, P2(AbsTarget, S_node_modules))

DistIgnore == Lines(<< <<SEP>> \o S_dist \o <<SEP>> >>)

\* C8: with an ignore file whose only line is /dist/ and a template holding
\* dist/bundle.js, materialization copies neither dist nor dist/bundle.js
\* and makes no dist directory in the output.
C8_DistExcluded ==
    (IgnoreData = DistIgnore /\ Exists(fs0, P3(tmplPath, S_dist, S_bundle)))
        => /\ \A i \in DOMAIN ops : ~IsUnder(ops[i].src, P2(tmplPath, S_dist))
           /\ ~Exists(fs, P2(AbsTarget, S_dist))

\* that scenario materialized, with the rest of the template copied
C8_Witness ==
    /\ Finished /\ err = ""
    /\ IgnoreData = DistIgnore /\ Exists(fs0, P3(tmplPath, S_dist, S_bundle))
    /\ Exists(fs0, P3(tmplPath, S_a, S_f))
    /\ Exists(fs, P3(AbsTarget, S_a, S_f))

SlashASlash == Lines(<< <<SEP>> \o S_a \o <<SEP>> >>)

\* C9: an ignore line /NAME/ excludes the top-level directory NAME and all
\* beneath it from copying, also for a NAME that is not denylisted (here a).
C9_SlashNameSlashExcludes ==
    (IgnoreData = SlashASlash /\ IsDir(fs0, P2(tmplPath, S_a)))
        => \A i \in DOMAIN ops : ~IsUnder(ops[i].src, P2(tmplPath, S_a))

\* C4: a `new` invocation with --dry-run writes nothing to the file system
\* and starts no external command, whatever the other flags are.
C4_DryRunWritesNothing ==
    (entry = "new" /\ pc # "new" /\ flags.dryRun) => (fs = fs0 /\ procs = <<>>)

\* the directories an ignore pattern may name
ProbeDirs == {S_a, P2(S_a, S_b), S_dist}

IsPrefixSeq(a, b) == Len(a) <= Len(b) /\ SubSeq(b, 1, Len(a)) = a

\* C10: when the pattern list holds a pattern naming a directory D, with or
\* without one trailing slash, MatchIgnore is true of D and of every relative
\* path beneath D.
C10_DirectoryPrefixMatches ==
    (probe.fn = "MatchIgnore" /\ probe.done)
        => \A d \in ProbeDirs :
              ( /\ \E i \in DOMAIN probe.patterns :
                      probe.patterns[i] \in {d, d \o <<SEP>>}
                /\ IsPrefixSeq(SplitOn(d, SEP), SplitOn(probe.relPath, SEP)) )
              => probe.out

\* a path two levels beneath a directory named with a trailing slash, which
\* no glob pattern of the list matches
C10_Witness ==
    /\ probe.fn = "MatchIgnore" /\ probe.done
    /\ probe.patterns = << S_f, S_a \o <<SEP>> >>
    /\ probe.relPath = P3(S_a, S_b, S_f)
    /\ probe.out

\* the first N bytes of a file, N the number the specification gives
FirstN(data) == SubSeq(data, 1, Min(Len(data), 8000))

\* a file of BigFiles with its token expanded
ExpandedFile(data) ==
    IF Len(data) >= 11 THEN <<data[1]>> \o S_Ada \o SubSeq(data, 12, Len(data)) ELSE data

\* C11: IsBinary(data, 8000) is true exactly when one of the first 8000
\* bytes is zero; files that agree on their first 8000 bytes are classified
\* alike; a file classified text is written with its placeholders expanded,
\* also when a later byte is zero, and a binary file byte for byte.
C11_BinaryByFirstN ==
    (probe.fn = "IsBinary" /\ probe.done)
        => /\ probe.out = (\E i \in DOMAIN probe.data : i <= 8000 /\ probe.data[i] = NUL)
           /\ (FirstN(probe.data) = FirstN(probe.other) => probe.out = probe.outOther)
           /\ err = ""
           /\ fs[P2(S_o, S_f)].data
                = (IF probe.out THEN probe.data ELSE ExpandedFile(probe.data))

\* a file whose only zero byte is the 8001st is copied as text, while one
\* that differs from it in byte 8000 alone is binary
C11_Witness ==
    /\ probe.fn = "IsBinary" /\ probe.done
    /\ probe.data = FileOf(8001, {8001}) /\ ~probe.out
    /\ probe.other = FileOf(8001, {8000, 8001}) /\ probe.outOther
    /\ fs[P2(S_o, S_f)].data = <<"x">> \o S_Ada \o SubSeq(probe.data, 12, 8001)

\* the replacements in force for the call under examination
ProbeRepl == Replacements(projectName, author, extraVars)

\* no replacement value holds the opening of a token
NoOpenInValues == \A k \in DOMAIN ProbeRepl : Index(ProbeRepl[k], OPEN) = 0

\* no replacement value holds a brace
BraceFreeValues ==
    \A k \in DOMAIN ProbeRepl : \A i \in DOMAIN ProbeRepl[k] : ProbeRepl[k][i] \notin {"{", "}"}

\* no key of extraVars holds a brace
BraceFreeKeys ==
    \A k \in DOMAIN extraVars : \A i \in DOMAIN k : k[i] \notin {"{", "}"}

\* every {{ of t begins a known token
TokensOnly(t) ==
    \A i \in 1..(Len(t) - 1) :
        SubSeq(t, i, i + 1) = OPEN
            => \E k \in DOMAIN ProbeRepl : HasPrefix(SubSeq(t, i, Len(t)), k)

ExampleText == Placeholder(K_PROJECT_NAME) \o S_by \o Placeholder(K_AUTHOR)

IsExample ==
    /\ probe.content = ExampleText /\ projectName = S_demo /\ author = S_Ada
    /\ extraVars = <<>>

\* C12 as stated: the example expands to "demo by Ada", and when no
\* replacement value holds {{, expanding the result of an expansion again
\* changes nothing, for every text.
C12_ReexpansionNoOp ==
    (probe.fn = "ReplacePlaceholders" /\ probe.site = "utils" /\ probe.calls = 2)
        => /\ (IsExample => probe.out = S_demo \o S_by \o S_Ada)
           /\ (NoOpenInValues => probe.again = probe.out)

\* C12, amended: the example expands to "demo by Ada", and expanding again
\* changes nothing for every text in which each {{ begins a known token,
\* when no key and no replacement value holds a brace.
C12_ReexpansionNoOpOfTokenTexts ==
    (probe.fn = "ReplacePlaceholders" /\ probe.site = "utils" /\ probe.calls = 2)
        => /\ (IsExample => probe.out = S_demo \o S_by \o S_Ada)
           /\ ((BraceFreeKeys /\ BraceFreeValues /\ TokensOnly(probe.content))
                  => probe.again = probe.out)

\* the example expanded twice
C12_Witness ==
    /\ probe.fn = "ReplacePlaceholders" /\ probe.site = "utils" /\ probe.calls = 2
    /\ IsExample
    /\ probe.out = S_demo \o S_by \o S_Ada
    /\ probe.again = probe.out

RECURSIVE ExpandOnce(_, _)
\* t with every token occurrence replaced by its value in one pass from left
\* to right, the values themselves left alone
ExpandOnce(t, repl) ==
    IF Len(t) = 0 THEN <<>>
    ELSE LET hit == {k \in DOMAIN repl : HasPrefix(t, k)}
         IN  IF hit = {} THEN <<t[1]>> \o ExpandOnce(Tail(t), repl)
             ELSE LET k == CHOOSE k \in hit : TRUE
                  IN  repl[k] \o ExpandOnce(SubSeq(t, Len(k) + 1, Len(t)), repl)

\* C13: ReplacePlaceholders returns the text with every occurrence of a
\* known token replaced by its value, and nothing a value brought in is
\* expanded in its turn.
C13_ExpandedExactlyOnce ==
    (probe.fn = "ReplacePlaceholders" /\ probe.site = "utils" /\ probe.calls >= 1)
        => probe.out = ExpandOnce(probe.content, ProbeRepl)

BuiltinKeys == {K_PROJECT_NAME, K_AUTHOR, K_PROJECT_NAME_LOWER, K_PROJECT_NAME_UPPER}

\* C14: when extraVars has a key that is a built-in token name, every
\* occurrence of that token is replaced by the caller's value, at both call
\* sites (stated for values without braces and texts of whole tokens, where
\* the order of the replacements does not matter).
C14_CallerValueOverrides ==
    ( /\ probe.fn = "ReplacePlaceholders" /\ probe.calls >= 1
      /\ DOMAIN extraVars \cap BuiltinKeys # {}
      /\ BraceFreeValues /\ TokensOnly(probe.content) )
        => probe.out = ExpandOnce(probe.content, ProbeRepl)

\* the materializing walk has handed entries to its callback and has failed
WalkFailed == mode = "create" /\ err # "" /\ visited # <<>>

\* the entry the materializing walk visited last
LastVisited == visited[Len(visited)]

\* C15: once reading a template entry or making or writing its destination
\* has failed, the walk visits nothing more: the entry visited last is the
\* one the error names (by its source path or by its destination path),
\* every directory made and file written before is in place, and nothing
\* else was added to the file system.
C15_FailFast ==
    WalkFailed
        => /\ stack = <<>>
           /\ errPath \in {LastVisited, Join(targetDir, Rel(tmplPath, LastVisited).val)}
           /\ \A i \in DOMAIN ops : ops[i].src # LastVisited
           /\ \A i \in DOMAIN ops : Exists(fs, ops[i].dst) /\ fs[ops[i].dst].dir = ops[i].dir
           /\ DOMAIN fs = DOMAIN fs0 \cup Ancestors(AbsTarget)
                                     \cup {ops[i].dst : i \in DOMAIN ops}

\* README.md was written, then making the directory a failed on the file a
\* of the destination, and logo.png, next in the walk, was never written
C15_Witness ==
    /\ WalkFailed /\ pc = "done"
    /\ err = "ENOTDIR"
    /\ LastVisited = P2(tmplPath, S_a)
    /\ Exists(fs, P2(AbsTarget, S_README))
    /\ fs[P2(AbsTarget, S_README)].data = <<"#", " ">> \o S_demo
    /\ Exists(fs0, P2(tmplPath, S_logo))
    /\ ~Exists(fs, P2(AbsTarget, S_logo))

\* the invocation took the template branch of Run
TemplateBranch == entry = "new" /\ pc # "new" /\ ~(flags.gitURL # <<>> /\ cfgGit)

\* C16: when the template's path does not exist as `new` is run, with or
\* without --dry-run, the command fails with the file system as it was (the
\* destination directory not made), no template entry visited or listed
\* and no command started.
C16_TemplatePathRevalidated ==
    (TemplateBranch /\ ~Exists(fs0, tmplPath))
        => /\ pc = "done" /\ err = "template path no longer exists"
           /\ fs = fs0
           /\ mode = "none" /\ visited = <<>> /\ files = <<>> /\ ops = <<>>
           /\ procs = <<>>

\* `new` without --dry-run has ended on a template whose directory is gone
C16_Witness ==
    /\ TemplateBranch /\ ~Exists(fs0, tmplPath)
    /\ ~flags.dryRun /\ pc = "done"
    /\ err = "template path no longer exists"

RECURSIVE NamesLess(_, _)
\* a comes before b when compared name by name, a directory before what it holds
NamesLess(a, b) ==
    IF Len(a) = 0 THEN Len(b) > 0
    ELSE IF Len(b) = 0 THEN FALSE
    ELSE IF a[1] = b[1] THEN NamesLess(Tail(a), Tail(b))
    ELSE StrLess(a[1], b[1])

\* the entries behind the list come in the pre-order of the walk
ListedInPreOrder ==
    \A i, j \in DOMAIN listed :
        i < j => NamesLess(SplitOn(listed[i], SEP), SplitOn(listed[j], SEP))

PostCommands == {"post", "git init", "curl", "git add", "git commit", "editor"}

\* the positions of procs at which the command cmd was started
StartsOf(ps, cmd) == {i \in DOMAIN ps : ps[i].cmd = cmd}

Started(ps, cmd) == StartsOf(ps, cmd) # {}

\* CreateFromTemplate was called and has returned nil
CopyMade == mode = "create" /\ stack = <<>> /\ err = "" /\ pc \notin {"create", "walk"}

\* every entry of f is in g as it was
KeptIn(f, g) == \A p \in DOMAIN f : p \in DOMAIN g /\ g[p] = f[p]

\* the step of Run that follows the copy started every command the flags and
\* the configuration ask for, whatever became of the ones before it
AllStepsTaken ==
    /\ ~flags.noPost => Started(procs', "post")
    /\ ~flags.noGit =>
          /\ \E i \in StartsOf(procs', "git init"), j \in StartsOf(procs', "git add"),
                k \in StartsOf(procs', "git commit") : i < j /\ j < k
          /\ ~Exists(fs, P2(AbsTarget, S_gitignore)) => Started(procs', "curl")
    /\ cfgEditor # <<>> => Started(procs', "editor")

\* C18: in the template branch of `new` the post-create command, git init,
\* add and commit, the .gitignore download and the editor are started only
\* once CreateFromTemplate has returned nil; a command that fails is
\* reported as a warning, no entry the copy made is removed or altered, the
\* steps after a failed one are still taken, and the run reports success.
C18_CollaboratorsAfterCopy ==
    [][(entry = "new" /\ pc # "new" /\ procs' # procs) =>
          /\ CopyMade
          /\ \A i \in DOMAIN procs' : procs'[i].cmd \in PostCommands
          /\ \A i \in DOMAIN procs' :
                ~procs'[i].ok => Said("warning", procs'[i].cmd) \in Range(printed')
          /\ KeptIn(fs, fs')
          /\ AllStepsTaken
          /\ Said("success", "project") \in Range(printed')
          /\ pc' = "done" /\ err' = ""]_vars

\* every command was started and every one of them failed, and the copied
\* README is in place
C18_Witness ==
    /\ entry = "new" /\ pc = "done" /\ err = ""
    /\ \A c \in PostCommands : \E i \in DOMAIN procs : procs[i].cmd = c /\ ~procs[i].ok
    /\ Said("success", "project") \in Range(printed)
    /\ Exists(fs, P2(AbsTarget, S_README))

(***************************************************************************)
(* C19: --git                                                              *)
(***************************************************************************)
\* C19: a `new` invocation with a non-empty --git URL starts git clone of
\* that URL into the target directory, which is what makes the project
\* directory, and never selects, lists or copies a template, whatever the
\* stored configuration holds.
C19_GitUrlClones ==
    (entry = "new" /\ pc # "new" /\ flags.gitURL # <<>>)
        => /\ mode = "none" /\ visited = <<>> /\ files = <<>> /\ ops = <<>>
           /\ pc = "done"
           /\ ~Exists(fs0, AbsTarget) => Started(procs, "git clone")
           /\ \A p \in DOMAIN fs : p \in DOMAIN fs0 \/ Started(procs, "git clone")

(***************************************************************************)
(* C20: `config <language> ""`                                             *)
(***************************************************************************)
\* `config` was run with a language and this template name, and nothing else
SetDefaultRun(fl, name) ==
    ~fl.view /\ fl.clearDefault = "" /\ Len(fl.args) = 2 /\ fl.args[2] = name

Materialized == mode = "create" /\ Len(ops') = Len(ops) + 1

LastOp == ops'[Len(ops')]

\* C23: whenever a step of the materializing walk writes a file or makes a
\* directory at p, the directory parent(p) is there before the step: it is
\* the destination root, made before the walk, or an earlier step of the
\* same walk made it.
C23_ParentBeforeChild ==
    [][Materialized =>
          /\ IsDir(fs, Dir(LastOp.dst))
          /\ \/ Dir(LastOp.dst) = AbsTarget
             \/ \E i \in DOMAIN ops : ops[i].dir /\ ops[i].dst = Dir(LastOp.dst)]_vars

\* a file was written two levels below the destination root
C23_Witness ==
    /\ mode = "create" /\ err = ""
    /\ \E i \in DOMAIN ops :
          /\ ~ops[i].dir /\ ops[i].dst = P3(AbsTarget, S_a, S_f)
          /\ \E j \in 1..(i - 1) : ops[j].dir /\ ops[j].dst = P2(AbsTarget, S_a)

(***************************************************************************)
(* C24: where an entry is copied to                                        *)
(***************************************************************************)
\* C24: every entry the walk copies lands at the path beneath the
\* destination root that it has beneath the source root; so two source
\* entries never land on one destination path and no destination path lies
\* outside the destination root.
C24_RelativePathKept ==
    mode = "create" =>
       /\ \A i \in DOMAIN ops :
             /\ IsUnder(ops[i].src, tmplPath) /\ ops[i].src # tmplPath
             /\ IsUnder(ops[i].dst, AbsTarget) /\ ops[i].dst # AbsTarget
             /\ Below(AbsTarget, ops[i].dst) = Below(tmplPath, ops[i].src)
       /\ \A i, j \in DOMAIN ops : ops[i].src # ops[j].src => ops[i].dst # ops[j].dst

\* the walk has copied a file of a subdirectory and a file next to it
C24_Witness ==
    /\ mode = "create" /\ err = "" /\ stack = <<>>
    /\ \E i, j \in DOMAIN ops :
          /\ ops[i].src = P3(tmplPath, S_a, S_f) /\ ops[i].dst = P3(AbsTarget, S_a, S_f)
          /\ ops[j].src = P2(tmplPath, S_README) /\ ops[j].dst = P2(AbsTarget, S_README)

(***************************************************************************)
(* C25: prune and skip                                                     *)
(***************************************************************************)
\* what the walker of copyTree decides on p in the running call
Classified(p) ==
    shouldSkipEntry(fs[p].dir, Base(p), p, tmplPath, targetDir, call.absSourceDir,
                    call.targetInsideSource, call.ignores)

Pruned(p) == Classified(p).skip /\ Classified(p).skipDir

PlainSkipped(p) == Classified(p).skip /\ ~Classified(p).skipDir

\* the entries of the template as the run found them that lie directly in d
EntriesOf(d) == {q \in DOMAIN fs0 : q # d /\ Dir(q) = d}

\* the walk has visited everything it was going to visit
WalkedThrough == mode = "create" /\ stack = <<>> /\ err = "" /\ visited # <<>>

\* C25: once the walk has classified a directory "skip and do not descend"
\* it visits nothing beneath it; an entry classified plain "skip" (the root,
\* an ignored file, a file in the destination subtree) is the only one left
\* out: the walk still visits the entries next to it and, for the root, the
\* entries in it.
C25_PruneVersusSkip ==
    /\ mode = "create" =>
          \A i, j \in DOMAIN visited :
             (i < j /\ Pruned(visited[i])) =>
                ~(visited[j] # visited[i] /\ IsUnder(visited[j], visited[i]))
    /\ WalkedThrough =>
          \A i \in DOMAIN visited :
             PlainSkipped(visited[i]) =>
                /\ visited[i] # tmplPath =>
                      EntriesOf(Dir(visited[i])) \subseteq Range(visited)
                /\ visited[i] = tmplPath => EntriesOf(tmplPath) \subseteq Range(visited)

\* a walk that left the root and the ignored .foundryignore out, visited the
\* README next to it and stayed out of the pruned node_modules
C25_Witness ==
    /\ WalkedThrough
    /\ PlainSkipped(tmplPath)
    /\ P2(tmplPath, S_foundryignore) \in Range(visited)
    /\ PlainSkipped(P2(tmplPath, S_foundryignore))
    /\ P2(tmplPath, S_node_modules) \in Range(visited)
    /\ Pruned(P2(tmplPath, S_node_modules))
    /\ P3(tmplPath, S_node_modules, S_pkg) \in DOMAIN fs0
    /\ P3(tmplPath, S_node_modules, S_pkg) \notin Range(visited)
    /\ \E i \in DOMAIN ops : ops[i].src = P2(tmplPath, S_README)

(***************************************************************************)
(* C26: a template directory with a denylisted name                        *)
(***************************************************************************)
\* the files directly in the template directory that no ignore pattern names
RootFiles ==
    {p \in DOMAIN fs0 : /\ ~fs0[p].dir /\ Dir(p) = tmplPath
                        /\ ~MatchIgnore(Base(p), KeepPatterns(ScanLines(IgnoreData)))}

\* C26: the denylist never prunes the template root, whatever the root's own
\* name is: the preview lists and the materializing walk copies every file
\* directly in the root that is not ignored.
C26_RootNeverPruned ==
    /\ (mode = "preview" /\ pc = "create" /\ err = "") => RootFiles \subseteq Range(listed)
    /\ (Finished /\ err = "") => RootFiles \subseteq {ops[i].src : i \in DOMAIN ops}

(***************************************************************************)
(* C27: one input, one output                                              *)
(***************************************************************************)
\* C27: ReplacePlaceholders returns the same string every time it is given
\* the same text, project name, author and extra variables, in whatever
\* order the replacement map is ranged over.
C27_SameInputSameOutput ==
    (probe.fn = "ReplacePlaceholders" /\ probe.site = "utils" /\ probe.calls >= 1)
        => \A r \in Expansions("utils", probe.content, projectName, author, extraVars) :
              r = probe.out

(***************************************************************************)
(* C28: the destination inside the template                                *)
(***************************************************************************)
\* C28: isTargetInsideSource is true exactly when the resolved target is the
\* resolved source or lies beneath it, whatever the directories are called,
\* a child whose name begins with two dots included.
C28_InsideIffDescendant ==
    (probe.fn = "isTargetInsideSource" /\ probe.done)
        => (probe.out <=> IsUnder(probe.absTargetDir, probe.absSourceDir))

(***************************************************************************)
(* C30: the template's own .gitignore                                      *)
(***************************************************************************)
ProjectGitignore == P2(AbsTarget, S_gitignore)

GitCommands == {"git init", "curl", "git add", "git commit"}

\* C30: git setup never overwrites a .gitignore the copy put in the project
\* root: the downloaded default is written only when the project directory
\* has no .gitignore; with --no-git nothing is written and no git command is
\* started.
C30_GitignoreKept ==
    [][(entry = "new" /\ pc = "post") =>
          /\ Exists(fs, ProjectGitignore) =>
                /\ Exists(fs', ProjectGitignore)
                /\ fs'[ProjectGitignore] = fs[ProjectGitignore]
                /\ ~Started(procs', "curl")
          /\ flags.noGit =>
                /\ fs' = fs
                /\ \A i \in DOMAIN procs' : procs'[i].cmd \notin GitCommands]_vars

\* git setup ran on a project whose .gitignore came from the template, and
\* the file is as the copy wrote it
C30_Witness ==
    /\ entry = "new" /\ pc = "done" /\ err = "" /\ ~flags.noGit
    /\ Exists(fs0, P2(tmplPath, S_gitignore))
    /\ \E i \in DOMAIN ops : ops[i].dst = ProjectGitignore
    /\ \E i \in DOMAIN procs : procs[i].cmd = "git commit" /\ procs[i].ok
    /\ Exists(fs, P2(AbsTarget, S_git))
    /\ fs[ProjectGitignore] = FileEntry(PlainText)

(***************************************************************************)
(* C22: one template per name                                              *)
(***************************************************************************)
UniqueNames(ts) == \A i, j \in DOMAIN ts : ts[i].Name = ts[j].Name => i = j

\* the invocation just made registered a name the registry already held
Reregistered ==
    /\ flags'.cmd = "template add" /\ err' = ""
    /\ flags'.name \in TemplateNamesOf(config.Templates)

\* C22: from the empty registry on, whatever AddTemplate and RemoveTemplate
\* calls are made, no two stored templates have one name: adding a name that
\* is registered replaces that entry where it stands, the registry keeping
\* its length and its other entries.
C22_TemplateNamesUnique ==
    [][/\ UniqueNames(config.Templates)
       /\ UniqueNames(config'.Templates)
       /\ Reregistered =>
             /\ Len(config'.Templates) = Len(config.Templates)
             /\ \A i \in DOMAIN config.Templates :
                   config'.Templates[i] =
                      IF config.Templates[i].Name = flags'.name
                      THEN [Name |-> flags'.name, Path |-> flags'.path]
                      ELSE config.Templates[i]]_vars

\* go-api was registered, then flask, then go-api again with another path
C22_Witness ==
    /\ entry = "shell" /\ flags.cmd = "template add" /\ err = ""
    /\ flags.name = "go-api" /\ flags.path = S_o
    /\ config.Templates = <<[Name |-> "go-api", Path |-> S_o],
                            [Name |-> "flask", Path |-> S_t]>>

(***************************************************************************)
(* C29: language defaults and the registry                                 *)
(***************************************************************************)
\* C29: whatever `template add`, `template remove` (forced or not),
\* `config <language> <template>` and `config --clear-default <language>`
\* invocations are made, every value of LanguageDefaults is the name of a
\* template that is registered.
C29_DefaultsNameRegisteredTemplates ==
    entry = "shell" =>
       \A l \in DOMAIN config.LanguageDefaults :
          config.LanguageDefaults[l] \in TemplateNamesOf(config.Templates)

(***************************************************************************)
(* C21: the precheck of `new` is no lock                                   *)
(***************************************************************************)
\* what invocation p wrote
WrittenBy(p) == {ops[i].dst : i \in {j \in DOMAIN ops : ops[j].by = p}}

\* C21: the check that the destination is not there excludes nobody.  An
\* invocation passes it exactly when the path is absent at that moment,
\* wherever the other invocation stands; one that passed it goes into its
\* walk without error although the other has made the directory since; and
\* all either writes lies in the one destination directory.  So both can
\* pass and both can write there (C21_Witness).
C21_PrecheckExcludesNobody ==
    [][\A p \in Invocations :
          /\ pc[p] = "new" /\ pc'[p] # "new" =>
                (pc'[p] = "create" <=> ~Exists(fs, AbsTarget))
          /\ pc[p] = "create" /\ pc'[p] # "create" /\ IsDir(fs, AbsTarget) =>
                /\ pc'[p] = "walk" /\ err'[p] = ""
                /\ stack'[p] = <<tmplPath>>
                /\ fs' = fs
          /\ \A q \in WrittenBy(p)' : IsUnder(q, AbsTarget)]_vars

\* both passed the check while the destination was absent: the first made
\* the directory, the second found it there when it came to create it; both
\* walked to the end without error and wrote the same file
C21_Witness ==
    /\ entry = "race"
    /\ \A p \in Invocations : pc[p] = "done" /\ err[p] = ""
    /\ ~destExisted[1] /\ destExisted[2]
    /\ P2(AbsTarget, S_README) \in WrittenBy(1) \cap WrittenBy(2)
    /\ \E i, j \in DOMAIN ops : i < j /\ ops[i].by = 2 /\ ops[j].by = 1
====
